---- MODULE Spec2Model ----
(***************************************************************************)
(* Session lifecycle and persistence layer of the Discord PC builder bot   *)
(* (discord_pc_bot.py): the FileLock marker, the SessionManager store and  *)
(* its JSON mirror, the completion policy are_all_fields_collected, and    *)
(* the on_message conversation state machine with its suspension points.   *)
(***************************************************************************)
EXTENDS Integers, Sequences, FiniteSets, TLC

VARIABLES
    sessions,     \* session_manager.sessions of the bot process: user -> object id
    heap,         \* the PCBuilderSession objects, by object id
    tasks,        \* the on_message / command coroutines in flight, by slot
    mirror,       \* contents of discord_sessions.json (USER_SESSIONS_FILE)
    compressed,   \* number of entries appended to discord_sessions_compressed.txt
    collective,   \* build numbers of the entries of collective_builds.txt
    clock,        \* datetime.now(), in ticks
    nsent,        \* number of user messages delivered so far
    procs,        \* the bot processes sharing the directory: state, in-memory map, file offset
    marker,       \* the .sessions_lock marker file: 0 when absent, else the creator's pid
    cmarker,      \* the .collective_lock marker file, likewise
    pin,          \* function harness: the value a function is applied to
    pout          \* function harness: the value it returned

vars == <<sessions, heap, tasks, mirror, compressed, collective, clock, nsent,
          procs, marker, cmarker, pin, pout>>

botVars == <<sessions, heap, tasks, compressed, collective, clock, nsent>>
storeVars == <<procs, marker, cmarker>>
policyVars == <<pin, pout>>

-----------------------------------------------------------------------------
(* Text: Python str operations on TLA+ strings.                            *)

UPPERCASE == "ABCDEFGHIJKLMNOPQRSTUVWXYZ"
LOWERCASE == "abcdefghijklmnopqrstuvwxyz"
DIGITS == {"0", "1", "2", "3", "4", "5", "6", "7", "8", "9"}

\* k in t
Contains(t, k) ==
    \E i \in 1..(Len(t) - Len(k) + 1) : SubSeq(t, i, i + Len(k) - 1) = k

LowerChar(c) ==
    IF \E i \in 1..Len(UPPERCASE) : SubSeq(UPPERCASE, i, i) = c
    THEN LET i == CHOOSE j \in 1..Len(UPPERCASE) : SubSeq(UPPERCASE, j, j) = c
         IN  SubSeq(LOWERCASE, i, i)
    ELSE c

RECURSIVE LowerFrom(_, _)
LowerFrom(t, i) ==
    IF i > Len(t) THEN "" ELSE LowerChar(SubSeq(t, i, i)) \o LowerFrom(t, i + 1)

\* t.lower()
Lower(t) == LowerFrom(t, 1)

\* any(char.isdigit() for char in t)
HasDigit(t) == \E i \in 1..Len(t) : SubSeq(t, i, i) \in DIGITS

\* t.startswith(p)
StartsWith(t, p) == Len(t) >= Len(p) /\ SubSeq(t, 1, Len(p)) = p

-----------------------------------------------------------------------------
(* The texts of the model.                                                 *)

READY_TO_BUILD == "<READY_TO_BUILD>"

\* the mark every error placeholder of generate_build starts with (the cross-mark
\* emoji of the source, written here in ASCII)
ErrMark == "[x]"

\* what the conversation collaborator can return in handle_conversation_mode
ReadyReply == "Great! I think I have everything I need. <READY_TO_BUILD>"
PlainReply == "What color?"
EmptyFallback == "I'm here to help! What would you like to know about building a PC?"

\* what generate_build can return
BuildText == "Budget Gamer"
CatalogError == ErrMark \o " Error: Could not load parts data. Please contact an administrator."
GenEmptyError == ErrMark \o " Error: Could not generate build recommendation. Please try again."
GenRaiseError == ErrMark \o " Error generating build: timeout"

\* what handle_refinement_message can return
RefChanged == "Sure, I can change the GPU."
RefPlain == "Looks good to me."
RefEmptyFallback ==
    "I'm here to help! What would you like to know about your build or what changes are you thinking about?"
RefApology ==
    "Sorry, I ran into an issue there. What were you thinking about changing or asking about your build?"
RefCatalogError == ErrMark \o " Error: Could not load parts data for refinement."

ReplyTexts ==
    {ReadyReply, PlainReply, EmptyFallback, RefChanged, RefPlain, RefEmptyFallback,
     RefApology, RefCatalogError}

\* the messages a user sends to the bot
AllSlotsText == "1000 budget black rgb balanced fortnite nah"
UserTexts == {"!build", "cancel", "restart", "done", AllSlotsText, "cheaper please"}

\* messages that cover the seven required fields between them, and only between them
SlotTexts == <<"1500 dollars", "black lots", "balanced fortnite", "might special">>

\* the transcripts the completion policy is tried on
PolicyTexts ==
    {"budget 1500", "my budget", "1500", "BLACK", "rgb", "balanced and fortnite",
     "nah", "hello", "i know", AllSlotsText}

\* the status command, sent by a user who wants to know whether a session is open
StatusText == "!status"

\* the prefix commands of the bot
PrefixCommands == {"!build", "!status", "!parts", "!cancel", "!restart"}

Texts ==
    UserTexts \cup PolicyTexts \cup ReplyTexts \cup {SlotTexts[i] : i \in 1..Len(SlotTexts)}
        \cup {StatusText} \cup PrefixCommands

-----------------------------------------------------------------------------
(* PCBuilderSession                                                        *)

REQUIRED_FIELDS ==
    <<"budget", "color", "rgb_level", "aesthetics", "use_case", "upgradeability",
      "extra_notes">>

FieldNames == {REQUIRED_FIELDS[i] : i \in 1..Len(REQUIRED_FIELDS)}

NoAnswers == [f \in {} |-> ""]

\* mutation: a new record that already holds a structured budget
NewSessionWithBudget(user_id, now) ==
    [user_id |-> user_id,
     chat_history |-> <<>>,
     answers |-> [budget |-> "2000"],
     build_result |-> "",
     refinement_mode |-> FALSE,
     conversation_mode |-> FALSE,
     feedback_mode |-> FALSE,
     user_feedback |-> "",
     build_edits |-> <<>>,
     created_at |-> now,
     last_activity |-> now]

\* PCBuilderSession.__init__(user_id) at time now
NewSession(user_id, now) ==
    [user_id |-> user_id,
     chat_history |-> <<>>,
     answers |-> NoAnswers,
     build_result |-> "",
     refinement_mode |-> FALSE,
     conversation_mode |-> FALSE,
     feedback_mode |-> FALSE,
     user_feedback |-> "",
     build_edits |-> <<>>,
     created_at |-> now,
     last_activity |-> now]

\* one chat_history entry
Entry(role, text) == [role |-> role, text |-> text]

\* session.update_activity()
update_activity(s, now) == [s EXCEPT !.last_activity = now]

-----------------------------------------------------------------------------
(* Completion policy                                                       *)

BudgetWords == {"$", "dollar", "budget", "price", "cost", "around", "under", "over"}
ColorWords == {"black", "white", "red", "blue", "green", "pink", "purple", "rgb"}
RgbWords == {"rgb", "light", "led", "none", "lots", "some"}
AestheticsWords == {"look", "aesthetic", "style", "performance", "balanced"}
UseCaseWords ==
    {"fortnite", "league", "minecraft", "valorant", "gaming", "streaming", "work"}
UpgradeWords == {"upgrade", "wont", "won't", "might", "will", "nah"}
ExtraWords ==
    {"special", "request", "requirement", "need", "want", "none", "no", "nah"}

ChangeWords ==
    {"change", "upgrade", "downgrade", "replace", "swap", "different", "better",
     "cheaper", "more", "less", "instead", "rather", "prefer"}

Words ==
    BudgetWords \cup ColorWords \cup RgbWords \cup AestheticsWords \cup UseCaseWords
        \cup UpgradeWords \cup ExtraWords \cup ChangeWords

\* The str operations on each text of the model, worked out once: t.lower(), the
\* words w with w in t.lower(), and whether t holds a digit.
LowerOf == [t \in Texts |-> Lower(t)]
WordsIn == [t \in Texts |-> {w \in Words : Contains(Lower(t), w)}]
DigitIn == [t \in Texts |-> HasDigit(Lower(t))]

\* a chat_text made of the last entry alone
LastWords(s) ==
    IF s.chat_history = <<>> THEN {} ELSE WordsIn[s.chat_history[Len(s.chat_history)].text]

\* word in chat_text, for chat_text =
\* " ".join([msg.get('text', '') for msg in session.chat_history]).lower():
\* no word holds a blank, so it lies in the join exactly when it lies in one text
ChatWords(s) == UNION {WordsIn[s.chat_history[i].text] : i \in 1..Len(s.chat_history)}

\* mutation: the digit is looked for in the last entry alone
LastHasDigit(s) ==
    IF s.chat_history = <<>> THEN FALSE ELSE DigitIn[s.chat_history[Len(s.chat_history)].text]

\* any(char.isdigit() for char in chat_text)
ChatHasDigit(s) == \E i \in 1..Len(s.chat_history) : DigitIn[s.chat_history[i].text]

\* '<READY_TO_BUILD>' in ai_text
IsReady == [t \in ReplyTexts |-> Contains(t, READY_TO_BUILD)]

\* any(word in chat_text for word in words)
AnyIn(words, s) == words \cap ChatWords(s) # {}

\* field in session.answers and session.answers[field]
Answered(s, f) == f \in DOMAIN s.answers /\ s.answers[f] # ""

\* the keyword fallback of one field, tried only when the field is not yet collected
KeywordHit(f, s) ==
    CASE f = "budget" -> AnyIn(BudgetWords, s) /\ ChatHasDigit(s)
      [] f = "color" -> AnyIn(ColorWords, s)
      [] f = "rgb_level" -> AnyIn(RgbWords, s)
      [] f = "aesthetics" -> AnyIn(AestheticsWords, s)
      [] f = "use_case" -> AnyIn(UseCaseWords, s)
      [] f = "upgradeability" -> AnyIn(UpgradeWords, s)
      [] f = "extra_notes" -> AnyIn(ExtraWords, s)

\* collected_fields when the loop over session.answers tests the key alone
CollectedFieldsKeyOnly(s) ==
    LET fromAnswers == FieldNames \cap DOMAIN s.answers
    IN  fromAnswers \cup {f \in FieldNames \ fromAnswers : KeywordHit(f, s)}

\* collected_fields after the loop over session.answers and the seven keyword blocks
CollectedFields(s) ==
    LET fromAnswers == {f \in FieldNames : Answered(s, f)}
    IN  fromAnswers \cup {f \in FieldNames \ fromAnswers : KeywordHit(f, s)}

EssentialNeeded == 7

are_all_fields_collected(s) ==
    Cardinality({f \in FieldNames : f \in CollectedFields(s)}) >= EssentialNeeded

-----------------------------------------------------------------------------
(* The session store of one process: SessionManager and its JSON mirror.   *)

Users == {1, 2}

MaxObjs == 3
Oids == 1..MaxObjs
NoOid == 0

\* an unused heap cell, and a user without a record in a map of records
Free == [free |-> TRUE]

\* the value of the store: user -> record (or Free)
Records(ss, hp) == [u \in Users |-> IF ss[u] = NoOid THEN Free ELSE hp[ss[u]]]

\* session.to_dict()
to_dict(s) ==
    [user_id |-> s.user_id,
     chat_history |-> s.chat_history,
     answers |-> s.answers,
     build_result |-> s.build_result,
     refinement_mode |-> s.refinement_mode,
     conversation_mode |-> s.conversation_mode,
     feedback_mode |-> s.feedback_mode,
     user_feedback |-> s.user_feedback,
     build_edits |-> s.build_edits,
     created_at |-> s.created_at,
     last_activity |-> s.last_activity]

\* data.get(key, default)
Get(d, key, default) == IF key \in DOMAIN d THEN d[key] ELSE default

\* data.get(key) of a timestamp that is missing: None
NoTime == -1

\* from_dict without the build_edits line
FromDictNoEdits(d, now) ==
    [NewSession(d.user_id, now) EXCEPT
        !.chat_history = Get(d, "chat_history", <<>>),
        !.answers = Get(d, "answers", NoAnswers),
        !.build_result = Get(d, "build_result", ""),
        !.refinement_mode = Get(d, "refinement_mode", FALSE),
        !.conversation_mode = Get(d, "conversation_mode", FALSE),
        !.feedback_mode = Get(d, "feedback_mode", FALSE),
        !.user_feedback = Get(d, "user_feedback", ""),
        !.created_at = Get(d, "created_at", NoTime),
        !.last_activity = Get(d, "last_activity", NoTime)]

\* PCBuilderSession.from_dict(data), called at time now
from_dict(d, now) ==
    [NewSession(d.user_id, now) EXCEPT
        !.chat_history = Get(d, "chat_history", <<>>),
        !.answers = Get(d, "answers", NoAnswers),
        !.build_result = Get(d, "build_result", ""),
        !.refinement_mode = Get(d, "refinement_mode", FALSE),
        !.conversation_mode = Get(d, "conversation_mode", FALSE),
        !.feedback_mode = Get(d, "feedback_mode", FALSE),
        !.user_feedback = Get(d, "user_feedback", ""),
        !.build_edits = Get(d, "build_edits", <<>>),
        !.created_at = Get(d, "created_at", NoTime),
        !.last_activity = Get(d, "last_activity", NoTime)]

\* str(user_id) and int(user_id_str)
UserKey(u) == ToString(u)
KeyUser(k) == CHOOSE u \in Users : ToString(u) = k

\* the dict save_sessions builds: str(user_id) -> session.to_dict()
DumpData(recs) ==
    [k \in {UserKey(u) : u \in {v \in Users : recs[v] # Free}} |->
        to_dict(recs[KeyUser(k)])]

\* number of writes in which a dump reaches the file
FileBlocks == 2

NoFile == [exists |-> FALSE, blocks |-> <<>>]

\* json.dump(data, f): the text, as the blocks written one after the other
Serialize(data) == [i \in 1..FileBlocks |-> [data |-> data, k |-> i]]

\* json.load(f) succeeds: the file is one complete dump
WellFormed(blocks) ==
    /\ Len(blocks) = FileBlocks
    /\ \A i \in 1..FileBlocks : blocks[i].k = i /\ blocks[i].data = blocks[1].data

\* json.load(f) of a well-formed file
Parse(blocks) == blocks[1].data

NoRecords == [u \in Users |-> Free]

\* cls(data['user_id']) finds its key (129); a dict without it raises KeyError
Reconstructs(d) == "user_id" \in DOMAIN d

\* the map load_sessions builds in an empty store at time now; a missing file or
\* json.load raising leaves the store empty; the records are inserted one by one
\* in the order of the file (ascending keys), and the first that cannot be
\* reconstructed raises and ends the loop (152-163)
LoadedRecords(file, now) ==
    IF file.exists /\ WellFormed(file.blocks)
    THEN LET data == Parse(file.blocks)
             bad == {u \in Users : UserKey(u) \in DOMAIN data /\ ~Reconstructs(data[UserKey(u)])}
         IN  [u \in Users |->
                IF UserKey(u) \in DOMAIN data /\ \A b \in bad : u < b
                THEN from_dict(data[UserKey(u)], now)
                ELSE Free]
    ELSE NoRecords

\* a save_sessions that writes nothing
SaveNothing(recs, file, mk) == file

\* save_sessions() run to completion by a process on its own: the marker is
\* created, the file rewritten, the marker removed; with the marker present the
\* acquire times out and nothing is written
save_sessions(recs, file, mk) ==
    IF mk = 0 THEN [exists |-> TRUE, blocks |-> Serialize(DumpData(recs))] ELSE file

\* datetime.fromisoformat(session.last_activity) raises on None, and the bare except
\* marks the record; otherwise last_activity < cutoff (197-202)
Stale(s, cutoff) == IF s.last_activity = NoTime THEN TRUE ELSE s.last_activity < cutoff

\* a cleanup that also takes the records whose last_activity is the cutoff itself
CleanupInclusive(recs, now, max_age_hours) ==
    LET to_remove == {u \in Users : recs[u] # Free /\ recs[u].last_activity <= now - max_age_hours}
    IN  [recs |-> [u \in Users |-> IF u \in to_remove THEN Free ELSE recs[u]],
         to_remove |-> to_remove,
         flush |-> to_remove # {}]

\* a cleanup that stops after the first record it removes
CleanupFirstOnly(recs, now, max_age_hours) ==
    LET stale == {u \in Users : recs[u] # Free /\ Stale(recs[u], now - max_age_hours)}
        to_remove == {u \in stale : \A v \in stale : u <= v}
    IN  [recs |-> [u \in Users |-> IF u \in to_remove THEN Free ELSE recs[u]],
         to_remove |-> to_remove,
         flush |-> to_remove # {}]

\* cleanup_old_sessions(max_age_hours) at time now: the store afterwards, the
\* identities removed, and whether save_sessions is called (192-210)
cleanup_old_sessions(recs, now, max_age_hours) ==
    LET cutoff == now - max_age_hours
        to_remove == {u \in Users : recs[u] # Free /\ Stale(recs[u], cutoff)}
    IN  [recs |-> [u \in Users |-> IF u \in to_remove THEN Free ELSE recs[u]],
         to_remove |-> to_remove,
         flush |-> to_remove # {}]

-----------------------------------------------------------------------------
(* The bot process: texts, collaborators and coroutine slots.              *)

MaxTasks == 2
MaxMsgs == 4
MaxClock == 1

Tasks == 1..MaxTasks

ControlTokens == {"done", "restart", "cancel"}

\* the phase a record is dispatched in by on_message (feedback, then refinement,
\* then conversation)
Phase(s) ==
    IF s = Free THEN "Closed"
    ELSE IF s.feedback_mode THEN "AwaitingFeedback"
    ELSE IF s.refinement_mode THEN "Refining"
    ELSE IF s.conversation_mode THEN "Collecting"
    ELSE "Idle"

IdleTask ==
    [pc |-> "idle", user |-> 0, msg |-> "", oid |-> NoOid, reply |-> "", build |-> "",
     after |-> "", start |-> "", ai |-> "none", gen |-> "none",
     nbuilt |-> 0, sent |-> {}]

Resting == {"idle"}

\* the slot a new coroutine takes when handlers overlap: the lowest free one
FreeSlots == {t \in Tasks : tasks[t].pc \in Resting /\ \A r \in 1..(t - 1) : tasks[r].pc \notin Resting}

\* the slot a new coroutine takes when every user waits for the bot to finish its
\* turn before sending the next message
TurnSlot == IF \A t \in Tasks : tasks[t].pc \in Resting THEN {1} ELSE {}

\* a coroutine that starts on message m of user u
NewTask(u, m, startPhase) == [IdleTask EXCEPT !.user = u, !.msg = m, !.start = startPhase]

\* a coroutine that returns frees its slot and drops its reference
Finish(task) == IdleTask

\* objects still referenced by the store or by a coroutine
Live(ss, tk) == ({ss[u] : u \in Users} \cup {tk[t].oid : t \in Tasks}) \ {NoOid}

\* unreferenced objects are collected
Sweep(hp, ss, tk) == [o \in Oids |-> IF o \in Live(ss, tk) THEN hp[o] ELSE Free]

\* the object id a new PCBuilderSession gets
FreshOid(hp) == CHOOSE o \in Oids : hp[o] = Free /\ \A r \in 1..(o - 1) : hp[r] # Free

\* session_manager.get_session(user_id) at time now: the store and heap afterwards
get_session(ss, hp, u, now) ==
    LET ss1 == IF ss[u] = NoOid THEN [ss EXCEPT ![u] = FreshOid(hp)] ELSE ss
        hp1 == IF ss[u] = NoOid THEN [hp EXCEPT ![ss1[u]] = NewSession(u, now)] ELSE hp
    IN  [ss |-> ss1, hp |-> [hp1 EXCEPT ![ss1[u]] = update_activity(@, now)]]

\* a clear_session that flushes the mirror and leaves the store as it is
FlushOnly(ss, hp, u, file, mk) ==
    [ss |-> ss, file |-> save_sessions(Records(ss, hp), file, mk)]

\* session_manager.clear_session(user_id): the store and the mirror afterwards
clear_session(ss, hp, u, file, mk) ==
    LET ss1 == [ss EXCEPT ![u] = NoOid]
    IN  [ss |-> ss1, file |-> save_sessions(Records(ss1, hp), file, mk)]

\* get_build_number(): entries already in collective_builds.txt, plus one
get_build_number(log) == Len(log) + 1

\* save_build_to_collective_file(session) run to completion: one entry appended
save_build_to_collective_file(log) == Append(log, get_build_number(log))

\* save_session_compressed(user_id, session): one entry appended to the text log
save_session_compressed(n) == n + 1

-----------------------------------------------------------------------------
(* on_message and the command handlers, cut at their suspension points     *)
(* (the awaits that reach the network: typing(), send, delete,             *)
(* create_thread).  Code between two suspension points runs atomically:    *)
(* generate_content is a blocking call, and generate_build,                *)
(* save_session_compressed and save_build_to_collective_file never yield.  *)

\* the three variables every step of a coroutine settles: the slot, the store, the heap
Step(t, task, ss, hp) ==
    LET tk == [tasks EXCEPT ![t] = task]
    IN  /\ tasks' = tk
        /\ sessions' = ss
        /\ heap' = Sweep(hp, ss, tk)

\* a message is delivered
Accept ==
    /\ nsent < MaxMsgs
    /\ nsent' = nsent + 1
    /\ UNCHANGED <<compressed, clock, procs, marker, cmarker, pin, pout>>

\* !build with no record: start_build up to create_thread, or its refusal when the
\* channel already holds the user's unarchived build thread
StartBuild(t, u, m) ==
    /\ Accept
    /\ sessions[u] = NoOid
    /\ m = "!build"
    /\ \E threadExists \in BOOLEAN :
          Step(t, [NewTask(u, m, "Closed") EXCEPT
                      !.pc = IF threadExists THEN "final_send" ELSE "build_thread",
                      !.sent = IF threadExists THEN {"thread_exists"} ELSE {}],
               sessions, heap)
    /\ UNCHANGED <<mirror, collective>>

\* the message cancel (1323-1326)
OnCancel(t, u, m) ==
    /\ Accept
    /\ sessions[u] # NoOid
    /\ LowerOf[m] = "cancel"
    /\ LET got == get_session(sessions, heap, u, clock)
           cl == clear_session(got.ss, got.hp, u, mirror, marker)
       IN  /\ Step(t, [NewTask(u, m, Phase(heap[sessions[u]])) EXCEPT
                          !.pc = "final_send", !.sent = {"cancelled"}],
                   cl.ss, got.hp)
           /\ mirror' = cl.file
    /\ UNCHANGED collective

\* the message restart, up to the send of the restart embed (1328-1359)
OnRestart(t, u, m) ==
    /\ Accept
    /\ sessions[u] # NoOid
    /\ LowerOf[m] = "restart"
    /\ \E o \in Oids : heap[o] = Free
    /\ LET got == get_session(sessions, heap, u, clock)
           cl == clear_session(got.ss, got.hp, u, mirror, marker)
           new == get_session(cl.ss, got.hp, u, clock)
           oid == new.ss[u]
       IN  /\ Step(t, [NewTask(u, m, Phase(heap[sessions[u]])) EXCEPT
                          !.pc = "restart_send", !.oid = oid, !.sent = {"restart"}],
                   new.ss, [new.hp EXCEPT ![oid].conversation_mode = TRUE])
           /\ mirror' = cl.file
    /\ UNCHANGED collective

\* a capture that leaves feedback mode on
CaptureKeepingMode(s, m) == [s EXCEPT !.user_feedback = m]

\* the two assignments of the feedback branch (1367-1368)
capture_feedback(s, m) == [s EXCEPT !.user_feedback = m, !.feedback_mode = FALSE]

\* feedback mode: the message is the feedback (1366-1387)
OnFeedback(t, u, m) ==
    /\ Accept
    /\ sessions[u] # NoOid
    /\ LowerOf[m] \notin {"cancel", "restart"}
    /\ heap[sessions[u]].feedback_mode
    /\ LET got == get_session(sessions, heap, u, clock)
           oid == sessions[u]
       IN  Step(t, [NewTask(u, m, Phase(heap[oid])) EXCEPT
                       !.pc = "feedback_send", !.oid = oid, !.sent = {"thanks"}],
                got.ss,
                [got.hp EXCEPT ![oid] = capture_feedback(@, m)])
    /\ collective' = save_build_to_collective_file(collective)
    /\ UNCHANGED mirror

\* the message done outside feedback mode (1391-1394)
OnDone(t, u, m) ==
    /\ Accept
    /\ sessions[u] # NoOid
    /\ ~heap[sessions[u]].feedback_mode
    /\ LowerOf[m] = "done"
    /\ LET got == get_session(sessions, heap, u, clock)
           cl == clear_session(got.ss, got.hp, u, mirror, marker)
       IN  /\ Step(t, [NewTask(u, m, Phase(heap[sessions[u]])) EXCEPT
                          !.pc = "final_send", !.sent = {"completed"}],
                   cl.ss, got.hp)
           /\ mirror' = cl.file
    /\ UNCHANGED collective

\* refinement mode: handle_refinement_conversation up to typing() (1397, 1495-1503)
OnRefinement(t, u, m) ==
    /\ Accept
    /\ sessions[u] # NoOid
    /\ LowerOf[m] \notin ControlTokens
    /\ ~heap[sessions[u]].feedback_mode
    /\ heap[sessions[u]].refinement_mode
    /\ LET got == get_session(sessions, heap, u, clock)
           oid == sessions[u]
       IN  Step(t, [NewTask(u, m, Phase(heap[oid])) EXCEPT !.pc = "ref_typing", !.oid = oid],
                got.ss,
                [got.hp EXCEPT ![oid].build_edits =
                    IF LowerOf[m] \notin ControlTokens THEN Append(@, m) ELSE @])
    /\ UNCHANGED <<mirror, collective>>

\* conversation mode: handle_conversation_mode up to typing() (1402, 1409-1416)
OnConversation(t, u, m) ==
    /\ Accept
    /\ sessions[u] # NoOid
    /\ LowerOf[m] \notin ControlTokens
    /\ ~heap[sessions[u]].feedback_mode
    /\ ~heap[sessions[u]].refinement_mode
    /\ heap[sessions[u]].conversation_mode
    /\ LET got == get_session(sessions, heap, u, clock)
           oid == sessions[u]
       IN  Step(t, [NewTask(u, m, Phase(heap[oid])) EXCEPT !.pc = "typing", !.oid = oid],
                got.ss,
                [got.hp EXCEPT ![oid].chat_history = Append(@, Entry("user", m))])
    /\ UNCHANGED <<mirror, collective>>

\* build_status(ctx): the status the bot reports for user u (1619-1664)
build_status(ss, hp, u) ==
    IF ss[u] = NoOid THEN "no_session"
    ELSE IF hp[ss[u]].refinement_mode THEN "refinement"
    ELSE IF hp[ss[u]].conversation_mode THEN "conversation"
    ELSE "no_active"

\* !status with no record: process_commands runs build_status up to its send
\* (1316-1318, 1663-1664)
OnStatus(t, u, m) ==
    /\ Accept
    /\ sessions[u] = NoOid
    /\ m = StatusText
    /\ Step(t, [NewTask(u, m, "Closed") EXCEPT
                   !.pc = "final_send", !.sent = {build_status(sessions, heap, u)}],
            sessions, heap)
    /\ UNCHANGED <<mirror, collective>>

\* send_build_result(ctx, session, build_result) up to its first send (1189-1233)
ResultPc(build) == IF StartsWith(build, ErrMark) THEN "error_send" ELSE "result_send"
ResultSent(build) == IF StartsWith(build, ErrMark) THEN "error" ELSE "result"

\* mutation: every message goes to process_commands
DispatchedAlways(ss, u) == TRUE

\* on_message hands the message to bot.process_commands: the user has no record
\* (1316-1318)
Dispatched(ss, u) == ss[u] = NoOid

\* !parts handed to process_commands: show_parts refuses without a record or
\* without a build, and otherwise calls send_build_result (1601-1617)
OnParts(t, u, m) ==
    /\ Accept
    /\ Dispatched(sessions, u)
    /\ m = "!parts"
    /\ IF sessions[u] = NoOid
       THEN Step(t, [NewTask(u, m, "Closed") EXCEPT
                        !.pc = "final_send", !.sent = {"no_session"}],
                 sessions, heap)
       ELSE LET got == get_session(sessions, heap, u, clock)
                oid == sessions[u]
                build == heap[oid].build_result
            IN  IF build = ""
                THEN Step(t, [NewTask(u, m, Phase(heap[oid])) EXCEPT
                                 !.pc = "final_send", !.sent = {"no_build"}],
                          got.ss, got.hp)
                ELSE Step(t, [NewTask(u, m, Phase(heap[oid])) EXCEPT
                                 !.pc = ResultPc(build), !.oid = oid, !.build = build,
                                 !.after = "parts", !.sent = {ResultSent(build)}],
                          got.ss, got.hp)
    /\ UNCHANGED <<mirror, collective>>

\* !cancel or !restart handed to process_commands without a record: cancel_build
\* and restart_build report that there is no session (1547-1563)
OnCommandWithoutSession(t, u, m) ==
    /\ Accept
    /\ Dispatched(sessions, u)
    /\ sessions[u] = NoOid
    /\ m \in {"!cancel", "!restart"}
    /\ Step(t, [NewTask(u, m, "Closed") EXCEPT
                   !.pc = "final_send", !.sent = {"no_session"}],
            sessions, heap)
    /\ UNCHANGED <<mirror, collective>>

\* on_message(message) from its first line to its first suspension point, run in
\* slot t
on_message(t, u, m) ==
    \/ StartBuild(t, u, m)
    \/ OnStatus(t, u, m)
    \/ OnParts(t, u, m)
    \/ OnCommandWithoutSession(t, u, m)
    \/ OnCancel(t, u, m)
    \/ OnRestart(t, u, m)
    \/ OnFeedback(t, u, m)
    \/ OnDone(t, u, m)
    \/ OnRefinement(t, u, m)
    \/ OnConversation(t, u, m)

\* a coroutine's step that leaves the files and the clock alone
Quiet == UNCHANGED <<mirror, collective, clock, nsent, procs, marker, cmarker, pin, pout>>

\* start_build after create_thread: the record is created or reset, and the greeting
\* goes out (1132-1161)
BuildThreadDone(t) ==
    /\ tasks[t].pc = "build_thread"
    /\ sessions[tasks[t].user] # NoOid \/ \E o \in Oids : heap[o] = Free
    /\ LET u == tasks[t].user
           got == get_session(sessions, heap, u, clock)
           oid == got.ss[u]
       IN  Step(t, [tasks[t] EXCEPT !.pc = "final_send", !.oid = oid, !.sent = @ \cup {"greeting"}],
                got.ss,
                [got.hp EXCEPT ![oid].chat_history = <<>>,
                               ![oid].answers = NoAnswers,
                               ![oid].conversation_mode = TRUE,
                               ![oid].refinement_mode = FALSE,
                               ![oid].build_result = ""])
    /\ compressed' = save_session_compressed(compressed)
    /\ Quiet

\* the last send of a handler returns, and the handler with it
FinalSendDone(t) ==
    /\ tasks[t].pc = "final_send"
    /\ Step(t, Finish(tasks[t]), sessions, heap)
    /\ UNCHANGED compressed
    /\ Quiet

\* restart: the embed is out, handle_conversation_mode starts on the new record
\* with the message restart itself (1362, 1413-1416)
RestartSendDone(t) ==
    /\ tasks[t].pc = "restart_send"
    /\ LET oid == tasks[t].oid
       IN  Step(t, [tasks[t] EXCEPT !.pc = "typing"], sessions,
                [heap EXCEPT ![oid].chat_history = Append(@, Entry("user", tasks[t].msg))])
    /\ UNCHANGED compressed
    /\ Quiet

\* feedback: the invitation is out, refinement mode is set (1388)
FeedbackSendDone(t) ==
    /\ tasks[t].pc = "feedback_send"
    /\ LET hp == [heap EXCEPT ![tasks[t].oid].refinement_mode = TRUE]
       IN  Step(t, Finish(tasks[t]), sessions, hp)
    /\ UNCHANGED compressed
    /\ Quiet

\* ai_text of handle_conversation_mode for each outcome of generate_content that returns
AiText(outcome) ==
    CASE outcome = "ready" -> ReadyReply
      [] outcome = "plain" -> PlainReply
      [] outcome = "empty" -> EmptyFallback

\* the branch taken without the backup detection
SentinelOnlyBranch(s, ai_text) == IF IsReady[ai_text] THEN "build" ELSE "reply"

\* the branch handle_conversation_mode takes on a reply (1431-1440)
ConversationBranch(s, ai_text) ==
    IF IsReady[ai_text] THEN "build"
    ELSE IF are_all_fields_collected(s) THEN "build"
    ELSE "reply"

AiOutcomes == {"ready", "plain", "empty", "raise"}

\* handle_conversation_mode after typing(): the collaborator call and the three
\* ways on (1418-1450), or the except clause (1456-1458)
TypingDone(t, outcome) ==
    /\ tasks[t].pc = "typing"
    /\ LET oid == tasks[t].oid
       IN  IF outcome = "raise"
           THEN Step(t, [tasks[t] EXCEPT !.pc = "final_send", !.ai = "raise",
                                         !.sent = @ \cup {"apology"}],
                     sessions, heap)
           ELSE IF ConversationBranch(heap[oid], AiText(outcome)) = "build"
           THEN Step(t, [tasks[t] EXCEPT !.pc = "thinking_send", !.ai = outcome,
                                         !.reply = AiText(outcome)],
                     sessions, heap)
           ELSE Step(t, [tasks[t] EXCEPT !.pc = "reply_send", !.ai = outcome,
                                         !.reply = AiText(outcome),
                                         !.sent = @ \cup {"reply"}],
                     sessions,
                     [heap EXCEPT ![oid].chat_history = Append(@, Entry("assistant", AiText(outcome)))])
    /\ UNCHANGED compressed
    /\ Quiet

\* mutation: the handler puts the record it holds back into the store
ReplySendDoneReinserting(t) ==
    /\ tasks[t].pc = "reply_send"
    /\ LET hp == [heap EXCEPT ![tasks[t].oid] = update_activity(@, clock)]
       IN  Step(t, Finish(tasks[t]), [sessions EXCEPT ![tasks[t].user] = tasks[t].oid], hp)
    /\ compressed' = save_session_compressed(compressed)
    /\ Quiet

\* the reply is out: update_activity and save_session_compressed (1453-1454)
ReplySendDone(t) ==
    /\ tasks[t].pc = "reply_send"
    /\ LET hp == [heap EXCEPT ![tasks[t].oid] = update_activity(@, clock)]
       IN  Step(t, Finish(tasks[t]), sessions, hp)
    /\ compressed' = save_session_compressed(compressed)
    /\ Quiet

\* generate_build(session) for each thing that can happen in it (507-535)
generate_build(outcome) ==
    CASE outcome = "catalog" -> CatalogError
      [] outcome = "empty" -> GenEmptyError
      [] outcome = "raise" -> GenRaiseError
      [] outcome = "ok" -> BuildText

GenOutcomes == {"ok", "catalog", "empty", "raise"}

\* generate_build_from_conversation: the thinking message is out, the build is
\* generated (1472)
ThinkingSendDone(t, outcome) ==
    /\ tasks[t].pc = "thinking_send"
    /\ Step(t, [tasks[t] EXCEPT !.pc = "thinking_delete", !.gen = outcome,
                                !.build = generate_build(outcome),
                                !.nbuilt = @ + 1, !.sent = @ \cup {"thinking"}],
            sessions, heap)
    /\ UNCHANGED compressed
    /\ Quiet

\* the thinking message is deleted: the result is stored, the modes are switched
\* and the result is sent (1478-1484)
ThinkingDeleteDone(t) ==
    /\ tasks[t].pc = "thinking_delete"
    /\ LET oid == tasks[t].oid
       IN  Step(t, [tasks[t] EXCEPT !.pc = ResultPc(tasks[t].build), !.after = "conv",
                                    !.sent = @ \cup {ResultSent(tasks[t].build)}],
                sessions,
                [heap EXCEPT ![oid].build_result = tasks[t].build,
                             ![oid].refinement_mode = TRUE,
                             ![oid].conversation_mode = FALSE])
    /\ compressed' = save_session_compressed(compressed)
    /\ Quiet

\* what follows send_build_result in its caller: nothing in
\* generate_build_from_conversation, update_activity and save_session_compressed in
\* handle_refinement_conversation (1540-1541)
AfterResult(t, hp) ==
    LET hp1 == IF tasks[t].after = "ref"
               THEN [hp EXCEPT ![tasks[t].oid] = update_activity(@, clock)] ELSE hp
    IN  /\ Step(t, Finish(tasks[t]), sessions, hp1)
        /\ compressed' = IF tasks[t].after = "ref"
                         THEN save_session_compressed(compressed) ELSE compressed

\* send_build_result returns early on an error placeholder (1192-1194)
ErrorSendDone(t) ==
    /\ tasks[t].pc = "error_send"
    /\ AfterResult(t, heap)
    /\ Quiet

\* send_build_result sent everything: feedback mode is set (1306)
ResultSendDone(t) ==
    /\ tasks[t].pc = "result_send"
    /\ AfterResult(t, [heap EXCEPT ![tasks[t].oid].feedback_mode = TRUE])
    /\ Quiet

\* handle_refinement_message(session, user_message, build_result) for each thing
\* that can happen in it (537-591)
handle_refinement_message(outcome) ==
    CASE outcome = "catalog" -> RefCatalogError
      [] outcome = "changed" -> RefChanged
      [] outcome = "plain" -> RefPlain
      [] outcome = "empty" -> RefEmptyFallback
      [] outcome = "raise" -> RefApology

RefOutcomes == {"catalog", "changed", "plain", "empty", "raise"}

\* handle_refinement_conversation after typing(): the refinement collaborator is
\* called and its reply sent (1505-1524)
RefTypingDone(t, outcome) ==
    /\ tasks[t].pc = "ref_typing"
    /\ Step(t, [tasks[t] EXCEPT !.pc = "ref_send", !.after = "ref", !.ai = outcome,
                                !.reply = handle_refinement_message(outcome),
                                !.sent = @ \cup {IF outcome = "raise" THEN "apology" ELSE "reply"}],
            sessions, heap)
    /\ UNCHANGED compressed
    /\ Quiet

\* mutation: the reply of the collaborator is not looked at
RegenerateOnKeywordOnly(msg, reply) == ChangeWords \cap WordsIn[msg] # {}

\* made_changes and 'change' in refinement_response.lower() (1510-1514, 1527)
WantsRegeneration(msg, reply) ==
    ChangeWords \cap WordsIn[msg] # {} /\ "change" \in WordsIn[reply]

\* the reply is out: either the regeneration notice is sent, or the turn ends with
\* update_activity and save_session_compressed (1527-1528, 1540-1541)
RefSendDone(t) ==
    /\ tasks[t].pc = "ref_send"
    /\ IF WantsRegeneration(tasks[t].msg, tasks[t].reply)
       THEN /\ Step(t, [tasks[t] EXCEPT !.pc = "regen_notice", !.sent = @ \cup {"regenerating"}],
                    sessions, heap)
            /\ UNCHANGED compressed
       ELSE AfterResult(t, heap)
    /\ Quiet

\* the notice is out: the build is generated again and replaces build_result
\* (1531-1537)
RegenNoticeDone(t, outcome) ==
    /\ tasks[t].pc = "regen_notice"
    /\ LET build == generate_build(outcome)
       IN  Step(t, [tasks[t] EXCEPT !.pc = ResultPc(build), !.gen = outcome, !.build = build,
                                    !.nbuilt = @ + 1, !.sent = @ \cup {ResultSent(build)}],
                sessions, [heap EXCEPT ![tasks[t].oid].build_result = build])
    /\ UNCHANGED compressed
    /\ Quiet

\* time passes
Tick ==
    /\ clock < MaxClock
    /\ clock' = clock + 1
    /\ UNCHANGED <<sessions, heap, tasks, mirror, compressed, collective, nsent>>
    /\ UNCHANGED <<procs, marker, cmarker, pin, pout>>

\* the object ids load_sessions gives the records it builds, in the order of the file
LoadOid(recs, u) == Cardinality({v \in Users : v <= u /\ recs[v] # Free})

\* the bot process is stopped and started again: every coroutine is gone and
\* SessionManager() loads the mirror into an empty store (148-163)
BotRestart ==
    /\ LET recs == IF marker = 0 THEN LoadedRecords(mirror, clock) ELSE NoRecords
       IN  /\ sessions' = [u \in Users |-> IF recs[u] = Free THEN NoOid ELSE LoadOid(recs, u)]
           /\ heap' = [o \in Oids |->
                         IF \E u \in Users : recs[u] # Free /\ LoadOid(recs, u) = o
                         THEN recs[CHOOSE u \in Users : recs[u] # Free /\ LoadOid(recs, u) = o]
                         ELSE Free]
    /\ tasks' = [t \in Tasks |-> IdleTask]
    /\ UNCHANGED <<mirror, compressed, collective, clock, nsent>>
    /\ UNCHANGED <<procs, marker, cmarker, pin, pout>>

BotInit ==
    /\ sessions = [u \in Users |-> NoOid]
    /\ heap = [o \in Oids |-> Free]
    /\ tasks = [t \in Tasks |-> IdleTask]
    /\ compressed = 0
    /\ collective = <<>>
    /\ clock = 0
    /\ nsent = 0

-----------------------------------------------------------------------------
(* Several bot processes started from the same directory share the mirror  *)
(* and the marker.  Inside one process save_sessions and load_sessions     *)
(* are blocking calls; between processes every file operation is a step.   *)

MaxProcs == 2
Procs == 1..MaxProcs

NoData == DumpData(NoRecords)

\* a process that is not running
Down == [pc |-> "down", mem |-> NoRecords, data |-> NoData, pos |-> 0, tries |-> 0,
         num |-> 0]

\* between FileLock.__enter__ and FileLock.__exit__ of load_sessions and save_sessions
CriticalPcs == {"load_read", "save_open", "save_write"}

\* a file that is absent, or one json.load accepts
Complete(file) == ~file.exists \/ WellFormed(file.blocks)

\* the bytes of a write land at the writer's own offset; a gap left by somebody
\* else's truncation reads as zeros
Hole == [data |-> NoData, k |-> 0]
WriteAt(blocks, k, b) ==
    IF k <= Len(blocks) THEN [blocks EXCEPT ![k] = b]
    ELSE [i \in 1..k |-> IF i <= Len(blocks) THEN blocks[i] ELSE IF i = k THEN b ELSE Hole]

\* a step of process p that leaves the bot of the single-process view alone
StoreStep(p, proc) ==
    /\ procs' = [procs EXCEPT ![p] = proc]
    /\ UNCHANGED <<sessions, heap, tasks, compressed, collective, clock, nsent, pin, pout>>
    /\ UNCHANGED cmarker

\* a step of process p on the collective file or its marker
CollectiveStep(p, proc) ==
    /\ procs' = [procs EXCEPT ![p] = proc]
    /\ UNCHANGED <<sessions, heap, tasks, compressed, clock, nsent, pin, pout>>
    /\ UNCHANGED <<mirror, marker>>

\* the process is started: SessionManager() up to FileLock(SESSIONS_LOCK_FILE) (148-155)
Start(p) ==
    /\ procs[p].pc = "down"
    /\ StoreStep(p, [Down EXCEPT !.pc = IF mirror.exists THEN "load_acquire" ELSE "idle"])
    /\ UNCHANGED <<mirror, marker>>

\* FileLock.acquire creates the marker (28-36)
LoadAcquire(p) ==
    /\ procs[p].pc = "load_acquire"
    /\ marker = 0
    /\ marker' = p
    /\ StoreStep(p, [procs[p] EXCEPT !.pc = "load_read"])
    /\ UNCHANGED mirror

\* FileLock.acquire gives up, __enter__ raises, load_sessions logs (37-42, 52-54, 162-163)
LoadTimeout(p) ==
    /\ procs[p].pc = "load_acquire"
    /\ marker # 0
    /\ StoreStep(p, [procs[p] EXCEPT !.pc = "idle"])
    /\ UNCHANGED <<mirror, marker>>

\* the file is read and the marker released (156-161, 44-50)
LoadRead(p) ==
    /\ procs[p].pc = "load_read"
    /\ StoreStep(p, [procs[p] EXCEPT !.pc = "idle", !.mem = LoadedRecords(mirror, clock)])
    /\ marker' = 0
    /\ UNCHANGED mirror

\* mutation: a get_session that always builds a new record
GetSessionReplacing(p, u) ==
    /\ procs[p].pc = "idle"
    /\ StoreStep(p, [procs[p] EXCEPT !.mem[u] = NewSession(u, clock)])
    /\ UNCHANGED <<mirror, marker>>

\* a handler of process p calls get_session(u) (177-184)
GetSession(p, u) ==
    /\ procs[p].pc = "idle"
    /\ StoreStep(p, [procs[p] EXCEPT !.mem[u] =
                        IF @ = Free THEN NewSession(u, clock) ELSE update_activity(@, clock)])
    /\ UNCHANGED <<mirror, marker>>

\* mutation: a clear_session that flushes and leaves the record in the map
ClearWithoutDelete(p, u) ==
    /\ procs[p].pc = "idle"
    /\ StoreStep(p, [procs[p] EXCEPT !.pc = "save_acquire",
                                     !.data = DumpData(procs[p].mem)])
    /\ UNCHANGED <<mirror, marker>>

\* clear_session(u) and save_sessions up to FileLock(SESSIONS_LOCK_FILE) (186-170)
ClearSession(p, u) ==
    /\ procs[p].pc = "idle"
    /\ LET mem == [procs[p].mem EXCEPT ![u] = Free]
       IN  StoreStep(p, [procs[p] EXCEPT !.pc = "save_acquire", !.mem = mem,
                                         !.data = DumpData(mem)])
    /\ UNCHANGED <<mirror, marker>>

\* the largest max_age_hours cleanup_old_sessions is called with, and the last
\* instant of the clock of the eviction runs
MaxAge == 2
MaxNow == 3
Ages == 0..MaxAge

\* cleanup_task calls cleanup_old_sessions, up to FileLock(SESSIONS_LOCK_FILE) of
\* save_sessions when something was removed (1084-1087, 192-210)
CleanupOldSessions(p, max_age_hours) ==
    /\ procs[p].pc = "idle"
    /\ LET r == cleanup_old_sessions(procs[p].mem, clock, max_age_hours)
       IN  StoreStep(p, IF r.flush
                        THEN [procs[p] EXCEPT !.pc = "save_acquire", !.mem = r.recs,
                                              !.data = DumpData(r.recs)]
                        ELSE [procs[p] EXCEPT !.mem = r.recs])
    /\ UNCHANGED <<mirror, marker>>

\* time passes between two handlers
StoreTick ==
    /\ clock < MaxNow
    /\ clock' = clock + 1
    /\ UNCHANGED <<sessions, heap, tasks, mirror, compressed, collective, nsent>>
    /\ UNCHANGED <<procs, marker, cmarker, pin, pout>>

\* FileLock.acquire creates the marker (28-36)
SaveAcquire(p) ==
    /\ procs[p].pc = "save_acquire"
    /\ marker = 0
    /\ marker' = p
    /\ StoreStep(p, [procs[p] EXCEPT !.pc = "save_open"])
    /\ UNCHANGED mirror

\* FileLock.acquire gives up, __enter__ raises, save_sessions logs (37-42, 52-54, 174-175)
SaveTimeout(p) ==
    /\ procs[p].pc = "save_acquire"
    /\ marker # 0
    /\ StoreStep(p, [procs[p] EXCEPT !.pc = "idle", !.data = NoData])
    /\ UNCHANGED <<mirror, marker>>

\* open(USER_SESSIONS_FILE, 'w') truncates the mirror in place (171)
SaveOpen(p) ==
    /\ procs[p].pc = "save_open"
    /\ mirror' = [exists |-> TRUE, blocks |-> <<>>]
    /\ StoreStep(p, [procs[p] EXCEPT !.pc = "save_write", !.pos = 0])
    /\ UNCHANGED marker

\* json.dump: the next block reaches the file (172)
SaveWrite(p) ==
    /\ procs[p].pc = "save_write"
    /\ procs[p].pos < FileBlocks
    /\ LET k == procs[p].pos + 1
       IN  /\ mirror' = [mirror EXCEPT !.blocks = WriteAt(@, k, Serialize(procs[p].data)[k])]
           /\ StoreStep(p, [procs[p] EXCEPT !.pos = k])
    /\ UNCHANGED marker

\* the file is closed and FileLock.release removes the marker if there is one (44-50)
SaveClose(p) ==
    /\ procs[p].pc = "save_write"
    /\ procs[p].pos = FileBlocks
    /\ marker' = 0
    /\ StoreStep(p, [procs[p] EXCEPT !.pc = "idle", !.data = NoData, !.pos = 0])
    /\ UNCHANGED mirror

\* a failing write that leaves the with block without FileLock.__exit__
FailKeepingMarker(p) ==
    /\ procs[p].pc = "save_write"
    /\ procs[p].pos < FileBlocks
    /\ StoreStep(p, [procs[p] EXCEPT !.pc = "idle", !.data = NoData, !.pos = 0])
    /\ UNCHANGED <<mirror, marker>>

\* mutation: the exception of a failing write is not caught and ends the process
SaveFailEscaping(p) ==
    /\ procs[p].pc = "save_write"
    /\ procs[p].pos < FileBlocks
    /\ marker' = 0
    /\ StoreStep(p, Down)
    /\ UNCHANGED mirror

\* a write raises (disk full, I/O error): the with blocks unwind, the marker is
\* released and the exception is logged (174-175)
SaveFail(p) ==
    /\ procs[p].pc = "save_write"
    /\ procs[p].pos < FileBlocks
    /\ marker' = 0
    /\ StoreStep(p, [procs[p] EXCEPT !.pc = "idle", !.data = NoData, !.pos = 0])
    /\ UNCHANGED mirror

\* the process is killed: nothing of it runs any more
Crash(p) ==
    /\ procs[p].pc # "down"
    /\ StoreStep(p, Down)
    /\ UNCHANGED <<mirror, marker>>

\* the process shuts down between two handlers: the atexit hook cleanup_lock_files
\* removes the marker if there is one (82-94)
Exit(p) ==
    /\ procs[p].pc = "idle"
    /\ marker' = 0
    /\ cmarker' = 0
    /\ procs' = [procs EXCEPT ![p] = Down]
    /\ UNCHANGED <<sessions, heap, tasks, mirror, compressed, collective, clock, nsent, pin, pout>>

-----------------------------------------------------------------------------
(* FileLock.acquire attempt by attempt, and the two appends that use a     *)
(* FileLock: save_session_compressed on .sessions_lock and                 *)
(* save_build_to_collective_file on .collective_lock.                      *)

\* attempts that fit into the timeout: timeout / backoff (28-31, 39)
MaxTries == 2

\* entries a run appends to each of the two text files
MaxAppends == 1

\* FileLock.acquire is running
SessionsAcquirePcs == {"load_acquire", "save_acquire", "compressed_acquire"}
AcquirePcs == SessionsAcquirePcs \cup {"collective_acquire"}

\* the body of each with FileLock(...) block
Entered(pc) ==
    CASE pc = "load_acquire" -> "load_read"
      [] pc = "save_acquire" -> "save_open"
      [] pc = "compressed_acquire" -> "compressed_write"
      [] pc = "collective_acquire" -> "collective_write"

\* between FileLock.__enter__ and FileLock.__exit__ of the four operations
LockedPcs == CriticalPcs \cup {"compressed_write", "collective_write"}

\* the while loop of acquire still runs: time.time() - start_time < timeout (31)
InTime(p) == procs[p].tries < MaxTries

\* mutation: an acquire that takes over the marker of a process that is not running
LockTryReclaiming(p) ==
    /\ procs[p].pc \in SessionsAcquirePcs
    /\ InTime(p)
    /\ IF marker = 0 THEN TRUE ELSE procs[marker].pc = "down"
    /\ marker' = p
    /\ StoreStep(p, [procs[p] EXCEPT !.pc = Entered(@), !.tries = 0])
    /\ UNCHANGED mirror

\* open(self.lock_file, 'x') on .sessions_lock succeeds: the marker did not exist
\* (32-36)
LockTry(p) ==
    /\ procs[p].pc \in SessionsAcquirePcs
    /\ InTime(p)
    /\ marker = 0
    /\ marker' = p
    /\ StoreStep(p, [procs[p] EXCEPT !.pc = Entered(@), !.tries = 0])
    /\ UNCHANGED mirror

\* a retry that never looks at the time
SpinWithoutDeadline(p) ==
    /\ procs[p].pc \in SessionsAcquirePcs
    /\ marker # 0
    /\ StoreStep(p, procs[p])
    /\ UNCHANGED <<mirror, marker>>

\* FileExistsError: sleep the backoff and go round the loop (37-39)
LockRetry(p) ==
    /\ procs[p].pc \in SessionsAcquirePcs
    /\ InTime(p)
    /\ marker # 0
    /\ StoreStep(p, [procs[p] EXCEPT !.tries = @ + 1])
    /\ UNCHANGED <<mirror, marker>>

\* a timeout after which the file is opened for writing all the same
GiveUpTruncating(p) ==
    /\ procs[p].pc \in AcquirePcs
    /\ ~InTime(p)
    /\ StoreStep(p, [procs[p] EXCEPT !.pc = "idle", !.tries = 0, !.data = NoData])
    /\ mirror' = [exists |-> TRUE, blocks |-> <<>>]
    /\ UNCHANGED marker

\* the timeout has passed: acquire returns False, __enter__ raises and the
\* operation logs the exception (31, 42, 52-54)
LockGiveUp(p) ==
    /\ procs[p].pc \in AcquirePcs
    /\ ~InTime(p)
    /\ StoreStep(p, [procs[p] EXCEPT !.pc = "idle", !.tries = 0, !.data = NoData])
    /\ UNCHANGED <<mirror, marker>>

\* the same two steps of acquire on .collective_lock
CollectiveTry(p) ==
    /\ procs[p].pc = "collective_acquire"
    /\ InTime(p)
    /\ cmarker = 0
    /\ cmarker' = p
    /\ CollectiveStep(p, [procs[p] EXCEPT !.pc = Entered(@), !.tries = 0])
    /\ UNCHANGED collective

CollectiveRetry(p) ==
    /\ procs[p].pc = "collective_acquire"
    /\ InTime(p)
    /\ cmarker # 0
    /\ CollectiveStep(p, [procs[p] EXCEPT !.tries = @ + 1])
    /\ UNCHANGED <<collective, cmarker>>

\* any other exception in acquire: open raises and there is no marker, or writing
\* the pid into the new marker raises and the marker stays; acquire returns False
\* (40-41)
LockFault(p) ==
    /\ procs[p].pc \in SessionsAcquirePcs
    /\ InTime(p)
    /\ marker = 0
    /\ \E created \in BOOLEAN : marker' = IF created THEN p ELSE 0
    /\ StoreStep(p, [procs[p] EXCEPT !.pc = "idle", !.tries = 0, !.data = NoData])
    /\ UNCHANGED mirror

\* a handler calls save_session_compressed, up to FileLock(SESSIONS_LOCK_FILE)
\* (968-1059)
CompressedStart(p) ==
    /\ procs[p].pc = "idle"
    /\ compressed < MaxAppends
    /\ StoreStep(p, [procs[p] EXCEPT !.pc = "compressed_acquire"])
    /\ UNCHANGED <<mirror, marker>>

\* the entry is appended, or the write raises; either way __exit__ releases
\* (1059-1064, 57-58)
CompressedDone(p, ok) ==
    /\ procs[p].pc = "compressed_write"
    /\ compressed' = IF ok THEN save_session_compressed(compressed) ELSE compressed
    /\ marker' = 0
    /\ procs' = [procs EXCEPT ![p].pc = "idle"]
    /\ UNCHANGED <<sessions, heap, tasks, mirror, collective, clock, nsent, cmarker, pin, pout>>

\* a handler calls save_build_to_collective_file, up to FileLock(COLLECTIVE_LOCK_FILE):
\* build_number is taken from the file before the lock is asked for (668-728)
CollectiveStart(p) ==
    /\ procs[p].pc = "idle"
    /\ Len(collective) < MaxAppends
    /\ CollectiveStep(p, [procs[p] EXCEPT !.pc = "collective_acquire",
                                          !.num = get_build_number(collective)])
    /\ UNCHANGED <<collective, cmarker>>

\* the entry is appended, or the write raises; either way __exit__ releases
\* (728-737, 57-58)
CollectiveDone(p, ok) ==
    /\ procs[p].pc = "collective_write"
    /\ collective' = IF ok THEN Append(collective, procs[p].num) ELSE collective
    /\ cmarker' = 0
    /\ CollectiveStep(p, [procs[p] EXCEPT !.pc = "idle", !.num = 0])

StoreIdle ==
    /\ procs = [p \in Procs |-> Down]
    /\ marker = 0
    /\ cmarker = 0

-----------------------------------------------------------------------------
(* Harness of the completion policy: a session record whose answers are    *)
(* drawn at the start and whose transcript grows by appends; the policy    *)
(* is evaluated after every append, as handle_conversation_mode does.      *)

MaxPolicyLen == 2

\* a dict over some of the seven fields; "" is a falsy structured value, held by
\* at most one field
AnswerChoices ==
    {[f \in F \cup E |-> IF f \in E THEN "" ELSE "v"] :
        <<F, E>> \in {<<F, E>> \in (SUBSET FieldNames) \X (SUBSET FieldNames) :
                        F \cap E = {} /\ Cardinality(E) <= 1}}

PolicyIdle == pin = NewSession(1, 0) /\ pout = FALSE

PolicyInit ==
    /\ \E a \in AnswerChoices : pin = [NewSession(1, 0) EXCEPT !.answers = a]
    /\ pout = are_all_fields_collected(pin)

PolicyAppend(role, text) ==
    /\ Len(pin.chat_history) < MaxPolicyLen
    /\ pin' = [pin EXCEPT !.chat_history = Append(@, Entry(role, text))]
    /\ pout' = are_all_fields_collected(pin')
    /\ UNCHANGED <<sessions, heap, tasks, mirror, compressed, collective, clock, nsent,
                   procs, marker, cmarker>>

-----------------------------------------------------------------------------
(* Harness of the round trip: an in-memory map is drawn at the start,      *)
(* save_sessions writes it and load_sessions of a new process reads it.    *)

\* records that differ from a new one in one attribute, or in all of them
SampleRecords(u) ==
    LET new == NewSession(u, 0)
    IN  {new,
         [new EXCEPT !.chat_history = <<Entry("user", "rgb"), Entry("assistant", PlainReply)>>],
         [new EXCEPT !.answers = [f \in {"budget", "color"} |-> IF f = "budget" THEN "v" ELSE ""]],
         [new EXCEPT !.build_result = BuildText],
         [new EXCEPT !.refinement_mode = TRUE],
         [new EXCEPT !.conversation_mode = TRUE],
         [new EXCEPT !.feedback_mode = TRUE],
         [new EXCEPT !.user_feedback = "nah"],
         [new EXCEPT !.build_edits = <<"cheaper please">>],
         [new EXCEPT !.last_activity = 1],
         [new EXCEPT !.chat_history = <<Entry("user", AllSlotsText)>>,
                     !.answers = [f \in {"budget"} |-> "v"],
                     !.build_result = CatalogError,
                     !.refinement_mode = TRUE,
                     !.feedback_mode = TRUE,
                     !.user_feedback = "done",
                     !.build_edits = <<"cheaper please", "hello">>,
                     !.last_activity = 1]}

NotLoaded == [done |-> FALSE, loaded |-> NoRecords]

TripInit ==
    /\ pin \in {f \in [Users -> UNION {SampleRecords(u) \cup {Free} : u \in Users}] :
                  \A u \in Users : IF f[u] = Free THEN TRUE ELSE f[u].user_id = u}
    /\ pout = NotLoaded

\* save_sessions() of the process that holds the map pin
TripSave ==
    /\ ~mirror.exists
    /\ mirror' = save_sessions(pin, mirror, marker)
    /\ UNCHANGED <<sessions, heap, tasks, compressed, collective, clock, nsent,
                   procs, marker, cmarker, pin, pout>>

\* load_sessions() of a process started later
TripLoad ==
    /\ mirror.exists
    /\ ~pout.done
    /\ pout' = [done |-> TRUE, loaded |-> LoadedRecords(mirror, clock + 1)]
    /\ UNCHANGED <<sessions, heap, tasks, mirror, compressed, collective, clock, nsent,
                   procs, marker, cmarker, pin>>

-----------------------------------------------------------------------------
(* Harness of load_sessions: a mirror is drawn at the start (absent, cut   *)
(* short, complete, or complete with a record that lacks user_id) and a    *)
(* process that starts loads it.                                           *)

SampleMaps ==
    {f \in [Users -> UNION {SampleRecords(u) \cup {Free} : u \in Users}] :
        \A u \in Users : IF f[u] = Free THEN TRUE ELSE f[u].user_id = u}

\* a complete dump of the map f
GoodFile(f) == [exists |-> TRUE, blocks |-> Serialize(DumpData(f))]

\* a dump of which only the first block reached the file
CutFile(f) == [exists |-> TRUE, blocks |-> SubSeq(Serialize(DumpData(f)), 1, 1)]

\* a complete dump in which the record of user b has no user_id
WithoutUserId(d) == [k \in DOMAIN d \ {"user_id"} |-> d[k]]
BadRecordFile(f, b) ==
    [exists |-> TRUE,
     blocks |-> Serialize([k \in DOMAIN DumpData(f) |->
                             IF k = UserKey(b) THEN WithoutUserId(DumpData(f)[k])
                             ELSE DumpData(f)[k]])]

LoadFiles ==
    {NoFile} \cup {GoodFile(f) : f \in SampleMaps} \cup {CutFile(f) : f \in SampleMaps}
        \cup {BadRecordFile(f, b) : f \in SampleMaps, b \in Users}

LoadInit ==
    /\ mirror \in LoadFiles
    /\ pin = NoRecords
    /\ pout = NotLoaded

\* SessionManager() of a process that starts: load_sessions into the empty map
LoadMirror ==
    /\ ~pout.done
    /\ pout' = [done |-> TRUE, loaded |-> LoadedRecords(mirror, clock)]
    /\ UNCHANGED <<sessions, heap, tasks, mirror, compressed, collective, clock, nsent,
                   procs, marker, cmarker, pin>>

-----------------------------------------------------------------------------
(* PCBuildGenerator.build_prompt: the budget ceiling written into the      *)
(* prompt, and a harness that applies it to drawn budget slots.            *)

\* budget_text.replace(',', '')
RECURSIVE RemoveCommas(_)
RemoveCommas(t) ==
    IF t = "" THEN ""
    ELSE (IF SubSeq(t, 1, 1) = "," THEN "" ELSE SubSeq(t, 1, 1))
             \o RemoveCommas(SubSeq(t, 2, Len(t)))

\* re.search(r'(\d+[\,\d]*)', t).group(1) for a text t without commas: the first
\* run of digits, "" when the search finds nothing
budget_match(t) ==
    LET digits == {i \in 1..Len(t) : SubSeq(t, i, i) \in DIGITS}
    IN  IF digits = {} THEN ""
        ELSE LET first == CHOOSE i \in digits : \A j \in digits : i <= j
                 last == CHOOSE j \in first..Len(t) :
                             /\ \A k \in first..j : k \in digits
                             /\ (j + 1) \notin digits
             IN  SubSeq(t, first, last)

DigitValue(c) == (CHOOSE i \in 1..10 : SubSeq("0123456789", i, i) = c) - 1

\* int(t) of a run of digits
RECURSIVE ToInt(_)
ToInt(t) ==
    IF t = "" THEN 0
    ELSE 10 * ToInt(SubSeq(t, 1, Len(t) - 1)) + DigitValue(SubSeq(t, Len(t), Len(t)))

\* int(budget_val * 0.85): the double product truncated; it equals the exact
\* floor of 85 budget_val / 100 for every budget_val of at most 15 digits
Reduced(budget_val) == (budget_val * 85) \div 100

GamingDefaultWords == {"fortnite", "gaming", "game"}
BudgetDefaultWords == {"budget", "cost", "price", "spend", "afford"}

\* mutations of the ceiling
BudgetByPercentOnly(budget_text) ==
    LET m == budget_match(RemoveCommas(budget_text))
    IN  IF m # "" THEN Reduced(ToInt(m)) ELSE 1000

BudgetLargerOfTwo(budget_text) ==
    LET m == budget_match(RemoveCommas(budget_text))
        budget_val == ToInt(m)
    IN  IF m = "" THEN 1000
        ELSE IF Reduced(budget_val) > budget_val - 200 THEN Reduced(budget_val)
             ELSE budget_val - 200

BudgetKeywordFirst(budget_text) ==
    LET budget_lower == Lower(budget_text)
    IN  IF budget_match(RemoveCommas(budget_text)) # "" THEN 0
        ELSE IF \E word \in BudgetDefaultWords : Contains(budget_lower, word) THEN 1200
        ELSE IF \E word \in GamingDefaultWords : Contains(budget_lower, word) THEN 800
        ELSE 1000

\* mutation: the larger of the two candidates
LargerOfTwo(budget_val) ==
    IF Reduced(budget_val) > budget_val - 200 THEN Reduced(budget_val)
    ELSE budget_val - 200

\* min(reduced, budget_val - 200) (366)
SmallerOfTwo(budget_val) ==
    IF Reduced(budget_val) < budget_val - 200 THEN Reduced(budget_val)
    ELSE budget_val - 200

\* if budget_val - adjusted_budget < 200: adjusted_budget = budget_val - 200 (367-368)
FollowUp(budget_val, adjusted) ==
    IF budget_val - adjusted < 200 THEN budget_val - 200 ELSE adjusted

\* adjusted_budget of build_prompt
adjusted_budget(budget_text) ==
    LET m == budget_match(RemoveCommas(budget_text))
    IN  IF m # ""
        THEN LET budget_val == ToInt(m)
             IN  FollowUp(budget_val, SmallerOfTwo(budget_val))
        ELSE LET budget_lower == Lower(budget_text)
             IN  IF \E word \in GamingDefaultWords : Contains(budget_lower, word)
                 THEN 800
                 ELSE IF \E word \in BudgetDefaultWords : Contains(budget_lower, word)
                 THEN 1200
                 ELSE 1000

\* session.answers.get('budget', '$1000')
budget_text(answers) ==
    IF "budget" \in DOMAIN answers THEN answers.budget ELSE "$1000"

\* the budget slots of the harness: every text of at most MaxBudgetLen characters
\* of BudgetChars, and phrases of one or two pieces
MaxBudgetLen == 4
BudgetChars == {"0", "1", "2", "7", ",", "$"}

RECURSIVE TextsUpTo(_)
TextsUpTo(n) ==
    IF n = 0 THEN {""}
    ELSE LET shorter == TextsUpTo(n - 1)
         IN  shorter \cup {t \o c : t \in shorter, c \in BudgetChars}

Pieces ==
    {"fortnite", "gaming", "Game", "budget", "COST", "price", "spend", "afford",
     "no idea, maybe for ", "cheap", "2000", " "}

BudgetSlots == TextsUpTo(MaxBudgetLen) \cup Pieces \cup {p \o q : p, q \in Pieces}

NoCeiling == [done |-> FALSE, ceiling |-> 0]

BudgetInit ==
    /\ pin \in {[budget |-> t] : t \in BudgetSlots} \cup {[color |-> "black"]}
    /\ pout = NoCeiling

\* build_prompt(session, parts_data) up to the price_range line
BuildPrompt ==
    /\ ~pout.done
    /\ pout' = [done |-> TRUE, ceiling |-> adjusted_budget(budget_text(pin))]
    /\ UNCHANGED <<sessions, heap, tasks, mirror, compressed, collective, clock, nsent,
                   procs, marker, cmarker, pin>>

-----------------------------------------------------------------------------
(* Specifications                                                          *)

\* The bot as one process; every user waits for the end of the bot's turn before
\* sending the next message.
Init ==
    /\ BotInit
    /\ mirror = NoFile
    /\ StoreIdle
    /\ PolicyIdle

Next ==
    \/ \E t \in TurnSlot, u \in Users, m \in UserTexts : StartBuild(t, u, m)
    \/ \E t \in TurnSlot, u \in Users : OnStatus(t, u, StatusText)
    \/ \E t \in TurnSlot, u \in Users, m \in UserTexts : OnCancel(t, u, m)
    \/ \E t \in TurnSlot, u \in Users, m \in UserTexts : OnRestart(t, u, m)
    \/ \E t \in TurnSlot, u \in Users, m \in UserTexts : OnFeedback(t, u, m)
    \/ \E t \in TurnSlot, u \in Users, m \in UserTexts : OnDone(t, u, m)
    \/ \E t \in TurnSlot, u \in Users, m \in UserTexts : OnRefinement(t, u, m)
    \/ \E t \in TurnSlot, u \in Users, m \in UserTexts : OnConversation(t, u, m)
    \/ \E t \in Tasks : BuildThreadDone(t)
    \/ \E t \in Tasks : FinalSendDone(t)
    \/ \E t \in Tasks : RestartSendDone(t)
    \/ \E t \in Tasks : FeedbackSendDone(t)
    \/ \E t \in Tasks, outcome \in AiOutcomes : TypingDone(t, outcome)
    \/ \E t \in Tasks : ReplySendDone(t)
    \/ \E t \in Tasks, outcome \in GenOutcomes : ThinkingSendDone(t, outcome)
    \/ \E t \in Tasks : ThinkingDeleteDone(t)
    \/ \E t \in Tasks : ErrorSendDone(t)
    \/ \E t \in Tasks : ResultSendDone(t)
    \/ \E t \in Tasks, outcome \in RefOutcomes : RefTypingDone(t, outcome)
    \/ \E t \in Tasks : RefSendDone(t)
    \/ \E t \in Tasks, outcome \in GenOutcomes : RegenNoticeDone(t, outcome)
    \/ Tick
    \/ BotRestart

Spec == Init /\ [][Next]_vars

\* One user in conversation mode, right after start_build, who sends the messages of
\* SlotTexts in any order, each after the end of the turn before.
SlotUser == CHOOSE u \in Users : \A v \in Users : u <= v

InitSlots ==
    /\ sessions = [u \in Users |-> IF u = SlotUser THEN 1 ELSE NoOid]
    /\ heap = [o \in Oids |->
                 IF o = 1 THEN [NewSession(SlotUser, 0) EXCEPT !.conversation_mode = TRUE]
                 ELSE Free]
    /\ tasks = [t \in Tasks |-> IdleTask]
    /\ compressed = 1
    /\ collective = <<>>
    /\ clock = 0
    /\ nsent = 0
    /\ mirror = NoFile
    /\ StoreIdle
    /\ PolicyIdle

NextSlots ==
    \/ \E t \in TurnSlot, i \in 1..Len(SlotTexts) : OnConversation(t, SlotUser, SlotTexts[i])
    \/ \E t \in Tasks, outcome \in AiOutcomes : TypingDone(t, outcome)
    \/ \E t \in Tasks : ReplySendDone(t)
    \/ \E t \in Tasks : FinalSendDone(t)
    \/ \E t \in Tasks, outcome \in GenOutcomes : ThinkingSendDone(t, outcome)
    \/ \E t \in Tasks : ThinkingDeleteDone(t)
    \/ \E t \in Tasks : ErrorSendDone(t)
    \/ \E t \in Tasks : ResultSendDone(t)

SpecSlots == InitSlots /\ [][NextSlots]_vars

\* One user whose messages arrive whenever a coroutine slot is free, so that the
\* handlers of the same user overlap at their suspension points.
RaceTexts == {"!build", "cancel", "restart", AllSlotsText}

NextRace ==
    \/ \E t \in FreeSlots, m \in RaceTexts : StartBuild(t, SlotUser, m)
    \/ \E t \in FreeSlots, m \in RaceTexts : OnCancel(t, SlotUser, m)
    \/ \E t \in FreeSlots, m \in RaceTexts : OnRestart(t, SlotUser, m)
    \/ \E t \in FreeSlots, m \in RaceTexts : OnFeedback(t, SlotUser, m)
    \/ \E t \in FreeSlots, m \in RaceTexts : OnRefinement(t, SlotUser, m)
    \/ \E t \in FreeSlots, m \in RaceTexts : OnConversation(t, SlotUser, m)
    \/ \E t \in Tasks : BuildThreadDone(t)
    \/ \E t \in Tasks : FinalSendDone(t)
    \/ \E t \in Tasks : RestartSendDone(t)
    \/ \E t \in Tasks : FeedbackSendDone(t)
    \/ \E t \in Tasks, outcome \in AiOutcomes : TypingDone(t, outcome)
    \/ \E t \in Tasks : ReplySendDone(t)
    \/ \E t \in Tasks, outcome \in GenOutcomes : ThinkingSendDone(t, outcome)
    \/ \E t \in Tasks : ThinkingDeleteDone(t)
    \/ \E t \in Tasks : ErrorSendDone(t)
    \/ \E t \in Tasks : ResultSendDone(t)
    \/ \E t \in Tasks, outcome \in RefOutcomes : RefTypingDone(t, outcome)
    \/ \E t \in Tasks : RefSendDone(t)

SpecRace == Init /\ [][NextRace]_vars

\* One user who types the prefix commands at every point of a session, each message
\* after the turn before has returned.
CommandTexts == PrefixCommands \cup {AllSlotsText}

NextCommands ==
    \/ \E t \in TurnSlot, m \in CommandTexts : StartBuild(t, SlotUser, m)
    \/ \E t \in TurnSlot, m \in CommandTexts : OnStatus(t, SlotUser, m)
    \/ \E t \in TurnSlot, m \in CommandTexts : OnParts(t, SlotUser, m)
    \/ \E t \in TurnSlot, m \in CommandTexts : OnCommandWithoutSession(t, SlotUser, m)
    \/ \E t \in TurnSlot, m \in CommandTexts : OnFeedback(t, SlotUser, m)
    \/ \E t \in TurnSlot, m \in CommandTexts : OnRefinement(t, SlotUser, m)
    \/ \E t \in TurnSlot, m \in CommandTexts : OnConversation(t, SlotUser, m)
    \/ \E t \in Tasks : BuildThreadDone(t)
    \/ \E t \in Tasks : FinalSendDone(t)
    \/ \E t \in Tasks : FeedbackSendDone(t)
    \/ \E t \in Tasks, outcome \in AiOutcomes : TypingDone(t, outcome)
    \/ \E t \in Tasks : ReplySendDone(t)
    \/ \E t \in Tasks, outcome \in GenOutcomes : ThinkingSendDone(t, outcome)
    \/ \E t \in Tasks : ThinkingDeleteDone(t)
    \/ \E t \in Tasks : ErrorSendDone(t)
    \/ \E t \in Tasks : ResultSendDone(t)
    \/ \E t \in Tasks, outcome \in RefOutcomes : RefTypingDone(t, outcome)
    \/ \E t \in Tasks : RefSendDone(t)
    \/ Tick

SpecCommands == Init /\ [][NextCommands]_vars

\* One user in Refining, right after the first build was shown and the feedback
\* "done" was taken: the state three turns after start_build (!build, a message that
\* covers the seven fields, the feedback).  Every message waits for the end of the
\* turn before.
RefineTexts == {"cancel", "restart", "done", "cheaper please"}

InitRefine ==
    /\ sessions = [u \in Users |-> IF u = SlotUser THEN 1 ELSE NoOid]
    /\ heap = [o \in Oids |->
                 IF o = 1
                 THEN [NewSession(SlotUser, 0) EXCEPT
                          !.chat_history = <<Entry("user", AllSlotsText)>>,
                          !.build_result = BuildText,
                          !.refinement_mode = TRUE,
                          !.user_feedback = "done"]
                 ELSE Free]
    /\ tasks = [t \in Tasks |-> IdleTask]
    /\ compressed = 2
    /\ collective = <<1>>
    /\ clock = 0
    /\ nsent = 0
    /\ mirror = NoFile
    /\ StoreIdle
    /\ PolicyIdle

NextRefine ==
    \/ \E t \in TurnSlot, m \in RefineTexts : OnCancel(t, SlotUser, m)
    \/ \E t \in TurnSlot, m \in RefineTexts : OnRestart(t, SlotUser, m)
    \/ \E t \in TurnSlot, m \in RefineTexts : OnFeedback(t, SlotUser, m)
    \/ \E t \in TurnSlot, m \in RefineTexts : OnDone(t, SlotUser, m)
    \/ \E t \in TurnSlot, m \in RefineTexts : OnRefinement(t, SlotUser, m)
    \/ \E t \in TurnSlot, m \in RefineTexts : OnConversation(t, SlotUser, m)
    \/ \E t \in TurnSlot : OnStatus(t, SlotUser, StatusText)
    \/ \E t \in Tasks : FinalSendDone(t)
    \/ \E t \in Tasks : RestartSendDone(t)
    \/ \E t \in Tasks : FeedbackSendDone(t)
    \/ \E t \in Tasks, outcome \in AiOutcomes : TypingDone(t, outcome)
    \/ \E t \in Tasks : ReplySendDone(t)
    \/ \E t \in Tasks, outcome \in GenOutcomes : ThinkingSendDone(t, outcome)
    \/ \E t \in Tasks : ThinkingDeleteDone(t)
    \/ \E t \in Tasks : ErrorSendDone(t)
    \/ \E t \in Tasks : ResultSendDone(t)
    \/ \E t \in Tasks, outcome \in RefOutcomes : RefTypingDone(t, outcome)
    \/ \E t \in Tasks : RefSendDone(t)
    \/ \E t \in Tasks, outcome \in GenOutcomes : RegenNoticeDone(t, outcome)
    \/ Tick

SpecRefine == InitRefine /\ [][NextRefine]_vars

\* The processes that share the mirror and the marker.
InitStore ==
    /\ BotInit
    /\ mirror = NoFile
    /\ StoreIdle
    /\ PolicyIdle

NextStore ==
    \/ \E p \in Procs : Start(p)
    \/ \E p \in Procs : LoadAcquire(p)
    \/ \E p \in Procs : LoadTimeout(p)
    \/ \E p \in Procs : LoadRead(p)
    \/ \E p \in Procs, u \in Users : GetSession(p, u)
    \/ \E p \in Procs, u \in Users : ClearSession(p, u)
    \/ \E p \in Procs : SaveAcquire(p)
    \/ \E p \in Procs : SaveTimeout(p)
    \/ \E p \in Procs : SaveOpen(p)
    \/ \E p \in Procs : SaveWrite(p)
    \/ \E p \in Procs : SaveClose(p)
    \/ \E p \in Procs : SaveFail(p)
    \/ \E p \in Procs : Crash(p)
    \/ \E p \in Procs : Exit(p)

SpecStore == InitStore /\ [][NextStore]_vars

\* One process whose handlers touch sessions while time passes and whose
\* cleanup_task evicts; nothing else removes a record.
EvictProc == CHOOSE p \in Procs : \A q \in Procs : p <= q

NextEvict ==
    \/ Start(EvictProc)
    \/ LoadAcquire(EvictProc)
    \/ LoadRead(EvictProc)
    \/ \E u \in Users : GetSession(EvictProc, u)
    \/ \E a \in Ages : CleanupOldSessions(EvictProc, a)
    \/ SaveAcquire(EvictProc)
    \/ SaveOpen(EvictProc)
    \/ SaveWrite(EvictProc)
    \/ SaveClose(EvictProc)
    \/ Exit(EvictProc)
    \/ StoreTick

SpecEvict == InitStore /\ [][NextEvict]_vars

\* The processes with FileLock.acquire taken attempt by attempt.  The loop of
\* acquire is running code: it goes on until it returns.
LockLoop(p) == LockTry(p) \/ LockRetry(p) \/ LockGiveUp(p) \/ CollectiveTry(p) \/ CollectiveRetry(p)

NextLock ==
    \/ \E p \in Procs : Start(p)
    \/ \E p \in Procs : LockTry(p)
    \/ \E p \in Procs : LockRetry(p)
    \/ \E p \in Procs : LockGiveUp(p)
    \/ \E p \in Procs : LockFault(p)
    \/ \E p \in Procs : LoadRead(p)
    \/ \E p \in Procs : ClearSession(p, SlotUser)
    \/ \E p \in Procs : SaveOpen(p)
    \/ \E p \in Procs : SaveWrite(p)
    \/ \E p \in Procs : SaveClose(p)
    \/ \E p \in Procs : SaveFail(p)
    \/ \E p \in Procs : CompressedStart(p)
    \/ \E p \in Procs, ok \in BOOLEAN : CompressedDone(p, ok)
    \/ \E p \in Procs : CollectiveStart(p)
    \/ \E p \in Procs : CollectiveTry(p)
    \/ \E p \in Procs : CollectiveRetry(p)
    \/ \E p \in Procs, ok \in BOOLEAN : CollectiveDone(p, ok)
    \/ \E p \in Procs : Crash(p)
    \/ \E p \in Procs : Exit(p)

SpecLock == InitStore /\ [][NextLock]_vars /\ \A p \in Procs : WF_vars(LockLoop(p))

\* Two processes whose loads, flushes and eviction flushes meet on .sessions_lock,
\* with acquire taken attempt by attempt; a process that is killed leaves its marker.
NextTimeout ==
    \/ \E p \in Procs : Start(p)
    \/ \E p \in Procs : LockTry(p)
    \/ \E p \in Procs : LockRetry(p)
    \/ \E p \in Procs : LockGiveUp(p)
    \/ \E p \in Procs : LoadRead(p)
    \/ \E p \in Procs, u \in Users : GetSession(p, u)
    \/ \E p \in Procs, u \in Users : ClearSession(p, u)
    \/ \E p \in Procs, a \in Ages : CleanupOldSessions(p, a)
    \/ \E p \in Procs : SaveOpen(p)
    \/ \E p \in Procs : SaveWrite(p)
    \/ \E p \in Procs : SaveClose(p)
    \/ \E p \in Procs : Crash(p)
    \/ Tick

SpecTimeout == InitStore /\ [][NextTimeout]_vars

\* The same processes, where the loop of acquire goes on until it returns.
SessionsLockLoop(p) == LockTry(p) \/ LockRetry(p) \/ LockGiveUp(p)

SpecStale == InitStore /\ [][NextTimeout]_vars /\ \A p \in Procs : WF_vars(SessionsLockLoop(p))

\* Two processes whose loads and flushes time out, fail to create the marker, or
\* fail in the middle of a write; nobody is killed.
NextFault ==
    \/ \E p \in Procs : Start(p)
    \/ \E p \in Procs : LockTry(p)
    \/ \E p \in Procs : LockRetry(p)
    \/ \E p \in Procs : LockGiveUp(p)
    \/ \E p \in Procs : LockFault(p)
    \/ \E p \in Procs : LoadRead(p)
    \/ \E p \in Procs, u \in Users : GetSession(p, u)
    \/ \E p \in Procs, u \in Users : ClearSession(p, u)
    \/ \E p \in Procs, a \in Ages : CleanupOldSessions(p, a)
    \/ \E p \in Procs : SaveOpen(p)
    \/ \E p \in Procs : SaveWrite(p)
    \/ \E p \in Procs : SaveClose(p)
    \/ \E p \in Procs : SaveFail(p)
    \/ Tick

SpecFault == InitStore /\ [][NextFault]_vars

\* Two processes that load, create records and delete the record of SlotUser;
\* nothing is evicted and nobody is killed, so that the record of the other user is
\* never deleted by anybody.
NextDrop ==
    \/ \E p \in Procs : Start(p)
    \/ \E p \in Procs : LockTry(p)
    \/ \E p \in Procs : LockRetry(p)
    \/ \E p \in Procs : LockGiveUp(p)
    \/ \E p \in Procs : LoadRead(p)
    \/ \E p \in Procs, u \in Users : GetSession(p, u)
    \/ \E p \in Procs : ClearSession(p, SlotUser)
    \/ \E p \in Procs : SaveOpen(p)
    \/ \E p \in Procs : SaveWrite(p)
    \/ \E p \in Procs : SaveClose(p)

SpecDrop == InitStore /\ [][NextDrop]_vars

\* load_sessions on the mirrors of LoadFiles.
InitLoad ==
    /\ BotInit
    /\ StoreIdle
    /\ LoadInit

SpecLoad == InitLoad /\ [][LoadMirror]_vars

\* build_prompt on the budget slots of BudgetSlots.
InitBudget ==
    /\ BotInit
    /\ mirror = NoFile
    /\ StoreIdle
    /\ BudgetInit

SpecBudget == InitBudget /\ [][BuildPrompt]_vars

\* are_all_fields_collected on growing transcripts.
InitPolicy ==
    /\ BotInit
    /\ mirror = NoFile
    /\ StoreIdle
    /\ PolicyInit

NextPolicy ==
    \/ \E text \in PolicyTexts : PolicyAppend("user", text)
    \/ PolicyAppend("assistant", PlainReply)

SpecPolicy == InitPolicy /\ [][NextPolicy]_vars

\* save_sessions followed by load_sessions.
InitTrip ==
    /\ BotInit
    /\ mirror = NoFile
    /\ StoreIdle
    /\ TripInit

NextTrip ==
    \/ TripSave
    \/ TripLoad

SpecTrip == InitTrip /\ [][NextTrip]_vars

-----------------------------------------------------------------------------
(* Properties                                                              *)

\* C1: at most one load_sessions/save_sessions critical section (between FileLock
\* acquire and release) is executing at any time, across all the processes that use
\* the sessions marker.
MutualExclusion == Cardinality({p \in Procs : procs[p].pc \in CriticalPcs}) <= 1

\* C2: whatever failure or crash interrupts save_sessions, once no save_sessions is
\* writing any more the mirror is absent or a complete dump, never empty or partial.
CrashConsistentFlush == (\A p \in Procs : procs[p].pc # "save_write") => Complete(mirror)

\* C3: when the handler of a message received in Collecting, AwaitingFeedback or
\* Refining returns and the user still has a record, the mirror holds that record as
\* it is now, so that load_sessions after a restart recovers it.
DurablePerTurn ==
    [][\A t \in Tasks :
          (/\ tasks[t].pc # "idle"
           /\ tasks'[t].pc = "idle"
           /\ tasks[t].start \in {"Collecting", "AwaitingFeedback", "Refining"}
           /\ sessions'[tasks[t].user] # NoOid)
          => LoadedRecords(mirror', clock')[tasks[t].user] = heap'[sessions'[tasks[t].user]]]_vars

\* C4: save_sessions followed by load_sessions into an empty store gives, for every
\* identity of the map, a record with the same user_id, mode flags, answers,
\* chat_history, build_result, user_feedback, build_edits and timestamps, and gives no
\* other identity.
RoundTrip ==
    pout.done =>
        \A u \in Users :
            IF pin[u] = Free THEN pout.loaded[u] = Free
            ELSE /\ pout.loaded[u] # Free
                 /\ pout.loaded[u].user_id = pin[u].user_id
                 /\ pout.loaded[u].refinement_mode = pin[u].refinement_mode
                 /\ pout.loaded[u].conversation_mode = pin[u].conversation_mode
                 /\ pout.loaded[u].feedback_mode = pin[u].feedback_mode
                 /\ pout.loaded[u].answers = pin[u].answers
                 /\ pout.loaded[u].chat_history = pin[u].chat_history
                 /\ pout.loaded[u].build_result = pin[u].build_result
                 /\ pout.loaded[u].user_feedback = pin[u].user_feedback
                 /\ pout.loaded[u].build_edits = pin[u].build_edits
                 /\ pout.loaded[u].created_at = pin[u].created_at
                 /\ pout.loaded[u].last_activity = pin[u].last_activity

\* C4, its case: a map with one identity, whose record differs from a new one in
\* every attribute, has been saved and loaded.
RoundTripDone ==
    /\ pout.done
    /\ Cardinality({u \in Users : pin[u] # Free}) = 1
    /\ \E u \in Users :
          IF pin[u] = Free THEN FALSE
          ELSE /\ Len(pin[u].build_edits) = 2
               /\ pin[u].answers # NoAnswers
               /\ pin[u].feedback_mode

\* C5: a message removes the sender's record only if it is cancel, or done received
\* in Refining (restart replaces the record with a new one).
ClosedOnlyByDoneOrCancel ==
    [][\A u \in Users :
          (nsent' = nsent + 1 /\ sessions[u] # NoOid /\ sessions'[u] = NoOid)
          => \E t \in Tasks :
                /\ tasks[t].pc = "idle"
                /\ tasks'[t].pc # "idle"
                /\ tasks'[t].user = u
                /\ \/ LowerOf[tasks'[t].msg] = "cancel"
                   \/ LowerOf[tasks'[t].msg] = "done" /\ tasks'[t].start = "Refining"]_vars

\* the transcript holds every message of SlotTexts as a user entry
Covered(s) ==
    \A i \in 1..Len(SlotTexts) :
        \E j \in 1..Len(s.chat_history) : s.chat_history[j] = Entry("user", SlotTexts[i])

PolicyIffAllSlots ==
    pout = (\A f \in FieldNames :
              \/ f \in DOMAIN pin.answers /\ pin.answers[f] # ""
              \/ KeywordHit(f, pin))

\* C7, its case: the policy is true of a session that has no structured budget value,
\* on the strength of the transcript.
PolicyTrueByKeywordRoute ==
    /\ pout
    /\ "budget" \notin DOMAIN pin.answers
    /\ Len(pin.chat_history) > 0

\* C8: a Collecting turn whose collaborator call returned goes on to the Build
\* Generator if the reply holds the sentinel or else if the policy is true, leaving
\* the record as it was; otherwise it appends the reply as an assistant entry and the
\* session stays in Collecting.  Nothing else leads from Collecting to the Build
\* Generator.
ThreeWaysOn ==
    [][\A t \in Tasks :
          /\ (/\ tasks[t].pc = "typing"
              /\ tasks'[t].pc \notin {"typing", "idle"}
              /\ tasks'[t].ai # "raise")
             => LET s == heap[tasks[t].oid]
                    after == heap'[tasks[t].oid]
                    reply == tasks'[t].reply
                    policy == \A f \in FieldNames : Answered(s, f) \/ KeywordHit(f, s)
                IN  IF IsReady[reply] \/ policy
                    THEN tasks'[t].pc = "thinking_send" /\ after = s
                    ELSE /\ tasks'[t].pc = "reply_send"
                         /\ after = [s EXCEPT !.chat_history =
                                        Append(@, Entry("assistant", reply))]
                         /\ Phase(after) = "Collecting"
          /\ (tasks[t].pc # "thinking_send" /\ tasks'[t].pc = "thinking_send")
             => /\ tasks[t].pc = "typing"
                /\ \/ IsReady[tasks'[t].reply]
                   \/ \A f \in FieldNames :
                         Answered(heap[tasks[t].oid], f) \/ KeywordHit(f, heap[tasks[t].oid])]_vars

\* C8, its case: a turn is on its way to the Build Generator on the strength of the
\* policy, the reply holding no sentinel.
BuildByPolicy ==
    \E t \in Tasks : tasks[t].pc = "thinking_send" /\ ~IsReady[tasks[t].reply]

\* C9: a generation call that fails (raises or returns nothing) leaves the session in
\* the phase it had before the turn.
FailedCallKeepsPhase ==
    [][\A t \in Tasks :
          (/\ tasks[t].pc = "thinking_delete"
           /\ tasks'[t].pc = "error_send"
           /\ tasks[t].gen \in {"raise", "empty"})
          => Phase(heap'[tasks[t].oid]) = tasks[t].start]_vars

\* C10: when the parts catalog cannot be loaded as the Build Generator is invoked
\* from Collecting, the user is shown the error, no build_result is stored and the
\* session does not enter Refining.
CatalogFailureStaysCollecting ==
    [][\A t \in Tasks :
          (/\ tasks[t].pc = "thinking_delete"
           /\ tasks'[t].pc = "error_send"
           /\ tasks[t].gen = "catalog")
          => /\ "error" \in tasks'[t].sent
             /\ heap'[tasks[t].oid].build_result = ""
             /\ ~heap'[tasks[t].oid].refinement_mode]_vars

\* C11: every record of the store whose refinement or feedback mode is on has a
\* non-empty build_result.
BuildResultWhenRefining ==
    \A u \in Users :
        IF sessions[u] = NoOid THEN TRUE
        ELSE (heap[sessions[u]].refinement_mode \/ heap[sessions[u]].feedback_mode)
             => heap[sessions[u]].build_result # ""

\* C12: in Collecting, Refining and AwaitingFeedback the message cancel removes the
\* user's record from the store and answers with the confirmation alone; a status
\* query that follows reports no session; the record is left as it was (nothing is
\* captured as feedback or appended to the transcript or the edit log), the history
\* file is not written, and no generation call is made.
ActivePhases == {"Collecting", "Refining", "AwaitingFeedback"}

CancelStep(t) ==
    /\ tasks[t].pc = "idle"
    /\ tasks'[t].pc # "idle"
    /\ LowerOf[tasks'[t].msg] = "cancel"
    /\ tasks'[t].start \in ActivePhases

CancelEndsSession ==
    [][\A t \in Tasks :
          CancelStep(t) =>
              LET u == tasks'[t].user
                  old == sessions[u]
              IN  /\ old # NoOid
                  /\ sessions'[u] = NoOid
                  /\ Records(sessions', heap')[u] = Free
                  /\ tasks'[t].sent = {"cancelled"}
                  /\ tasks'[t].pc = "final_send"
                  /\ build_status(sessions', heap', u) = "no_session"
                  /\ heap'[old] \in {Free, update_activity(heap[old], clock)}
                  /\ tasks'[t].nbuilt = 0
                  /\ collective' = collective
                  /\ compressed' = compressed]_vars

\* a cancel sent in Refining has been handled and the store holds no record of the user
CancelledWhileRefining ==
    \E t \in Tasks :
        /\ tasks[t].pc = "final_send"
        /\ tasks[t].msg = "cancel"
        /\ tasks[t].start = "Refining"
        /\ tasks[t].sent = {"cancelled"}
        /\ sessions[tasks[t].user] = NoOid

\* C13: in Collecting, Refining and AwaitingFeedback the message restart takes the
\* old record out of the store and leaves one record for the user, a new object in
\* Collecting (conversation mode on, refinement and feedback modes off) whose
\* answers, build_result, user_feedback, build_edits and transcript are empty.
RestartStep(t) ==
    /\ tasks[t].pc = "idle"
    /\ tasks'[t].pc # "idle"
    /\ LowerOf[tasks'[t].msg] = "restart"
    /\ tasks'[t].start \in ActivePhases

RestartLeavesFreshRecord ==
    [][\A t \in Tasks :
          RestartStep(t) =>
              LET u == tasks'[t].user
                  new == sessions'[u]
              IN  /\ new # NoOid
                  /\ new # sessions[u]
                  /\ tasks'[t].oid = new
                  /\ \A v \in Users \ {u} : sessions'[v] # new
                  /\ heap'[new].user_id = u
                  /\ Phase(heap'[new]) = "Collecting"
                  /\ heap'[new].conversation_mode
                  /\ ~heap'[new].refinement_mode
                  /\ ~heap'[new].feedback_mode
                  /\ heap'[new].answers = NoAnswers
                  /\ heap'[new].build_result = ""
                  /\ heap'[new].user_feedback = ""
                  /\ heap'[new].build_edits = <<>>
                  /\ heap'[new].chat_history = <<>>]_vars

\* a restart sent in AwaitingFeedback has replaced a record that held a build by an
\* empty one
RestartedWhileAwaitingFeedback ==
    \E t \in Tasks :
        /\ tasks[t].pc = "restart_send"
        /\ tasks[t].msg = "restart"
        /\ tasks[t].start = "AwaitingFeedback"
        /\ sessions[tasks[t].user] = tasks[t].oid
        /\ heap[tasks[t].oid].build_result = ""
        /\ heap[tasks[t].oid].chat_history = <<>>

\* C14: in AwaitingFeedback the next message other than cancel and restart, the
\* literal done included, is stored verbatim as user_feedback, feedback mode goes
\* off and the session is in Refining; the message starts no refinement turn, is not
\* appended to build_edits or to the transcript and leaves the record in the store.
\* Feedback mode being off, the message after it is not captured.
FeedbackStep(t) ==
    /\ tasks[t].pc = "idle"
    /\ tasks'[t].pc # "idle"
    /\ LowerOf[tasks'[t].msg] \notin {"cancel", "restart"}
    /\ tasks'[t].start = "AwaitingFeedback"

FeedbackCapturedOnce ==
    [][\A t \in Tasks :
          /\ FeedbackStep(t) =>
                LET u == tasks'[t].user
                    oid == sessions[u]
                IN  /\ sessions'[u] = oid
                    /\ oid # NoOid
                    /\ heap'[oid].user_feedback = tasks'[t].msg
                    /\ ~heap'[oid].feedback_mode
                    /\ Phase(heap'[oid]) = "Refining"
                    /\ heap'[oid].build_edits = heap[oid].build_edits
                    /\ heap'[oid].chat_history = heap[oid].chat_history
                    /\ heap'[oid].build_result = heap[oid].build_result
                    /\ tasks'[t].pc = "feedback_send"
                    /\ tasks'[t].sent = {"thanks"}
                    /\ tasks'[t].ai = "none"
                    /\ tasks'[t].nbuilt = 0
          /\ FeedbackSendDone(t) =>
                LET oid == tasks[t].oid
                IN  /\ tasks'[t].pc = "idle"
                    /\ sessions'[tasks[t].user] = oid
                    /\ Phase(heap'[oid]) = "Refining"
                    /\ heap'[oid].user_feedback = tasks[t].msg
                    /\ heap'[oid].build_edits = heap[oid].build_edits]_vars

\* the literal done, sent in AwaitingFeedback, is the feedback of a session that
\* goes on in Refining
DoneTakenAsFeedback ==
    \E t \in Tasks :
        /\ tasks[t].pc = "feedback_send"
        /\ tasks[t].msg = "done"
        /\ tasks[t].start = "AwaitingFeedback"
        /\ sessions[tasks[t].user] = tasks[t].oid
        /\ heap[tasks[t].oid].user_feedback = "done"
        /\ Phase(heap[tasks[t].oid]) = "Refining"

\* C15: once user_feedback of a record has been set, no later message of the same
\* session changes it.
FeedbackWrittenAtMostOnce ==
    [][\A t \in Tasks :
          (/\ tasks[t].pc = "idle"
           /\ tasks'[t].pc # "idle"
           /\ sessions[tasks'[t].user] # NoOid
           /\ sessions'[tasks'[t].user] = sessions[tasks'[t].user]
           /\ heap[sessions[tasks'[t].user]].user_feedback # "")
          => heap'[sessions[tasks'[t].user]].user_feedback
                = heap[sessions[tasks'[t].user]].user_feedback]_vars

\* C16: in Refining with feedback mode off the message done removes the user's
\* record from the store, rewrites the mirror without it and answers with the
\* closing message; from then on the user's messages start a handler only as
\* commands, which leave the store alone, and a record of the user appears again
\* only when a start_build of that user creates one.
DoneStep(t) ==
    /\ tasks[t].pc = "idle"
    /\ tasks'[t].pc # "idle"
    /\ LowerOf[tasks'[t].msg] = "done"
    /\ tasks'[t].start = "Refining"

DoneIsTerminal ==
    [][/\ \A t \in Tasks :
             DoneStep(t) =>
                 LET u == tasks'[t].user
                 IN  /\ sessions[u] # NoOid
                     /\ sessions'[u] = NoOid
                     /\ tasks'[t].pc = "final_send"
                     /\ tasks'[t].sent = {"completed"}
                     /\ tasks'[t].oid = NoOid
                     /\ mirror'.exists
                     /\ WellFormed(mirror'.blocks)
                     /\ Parse(mirror'.blocks) = DumpData(Records(sessions', heap'))
                     /\ UserKey(u) \notin DOMAIN Parse(mirror'.blocks)
       /\ \A t \in Tasks :
             (tasks[t].pc = "idle" /\ tasks'[t].pc # "idle" /\ tasks'[t].start = "Closed") =>
                 /\ tasks'[t].msg \in {"!build", StatusText}
                 /\ sessions' = sessions
                 /\ heap' = heap
                 /\ mirror' = mirror
       /\ \A u \in Users :
             (sessions[u] = NoOid /\ sessions'[u] # NoOid) =>
                 \E t \in Tasks :
                     /\ tasks[t].pc = "build_thread"
                     /\ tasks[t].user = u
                     /\ tasks[t].msg = "!build"
                     /\ tasks'[t].oid = sessions'[u]]_vars

\* a done sent in Refining has been handled: the record is gone from the store and
\* from the mirror
DoneWhileRefining ==
    \E t \in Tasks :
        /\ tasks[t].pc = "final_send"
        /\ tasks[t].msg = "done"
        /\ tasks[t].start = "Refining"
        /\ tasks[t].sent = {"completed"}
        /\ sessions[tasks[t].user] = NoOid
        /\ mirror.exists
        /\ UserKey(tasks[t].user) \notin DOMAIN Parse(mirror.blocks)

\* C17: a call of cleanup_old_sessions(max_age) removes the records whose
\* last_activity is before now minus max_age and no other record, leaves the records
\* it keeps as they are, and calls save_sessions if and only if it removed a record.
EvictsExactlyTheStale ==
    [][\A a \in Ages :
          CleanupOldSessions(EvictProc, a) =>
              LET mem == procs[EvictProc].mem
                  kept == procs'[EvictProc].mem
                  removed == {u \in Users : mem[u] # Free /\ kept[u] = Free}
              IN  /\ \A u \in Users :
                        u \in removed <=> (mem[u] # Free /\ mem[u].last_activity < clock - a)
                  /\ \A u \in Users \ removed : kept[u] = mem[u]
                  /\ (procs'[EvictProc].pc = "save_acquire") <=> (removed # {})
                  /\ removed # {} => procs'[EvictProc].data = DumpData(kept)
                  /\ removed = {} => procs' = procs]_vars

\* an eviction has removed one user's record and kept the other's, and its flush
\* is under way
EvictedOneKeptOne ==
    /\ procs[EvictProc].pc = "save_acquire"
    /\ \E u, v \in Users :
          /\ procs[EvictProc].mem[u] = Free
          /\ procs[EvictProc].mem[v] # Free
          /\ DOMAIN procs[EvictProc].data = {UserKey(v)}

\* C18: cleanup_old_sessions called a second time with the same clock, on the store
\* the first call left, removes nothing, changes no record and does not flush.
EvictionIdempotent ==
    \A a \in Ages :
        LET first == cleanup_old_sessions(procs[EvictProc].mem, clock, a)
            second == cleanup_old_sessions(first.recs, clock, a)
        IN  /\ second.to_remove = {}
            /\ second.recs = first.recs
            /\ ~second.flush

\* a store in which a first call removes the records of both users
BothRecordsStale ==
    /\ procs[EvictProc].pc = "idle"
    /\ \E a \in Ages :
          cleanup_old_sessions(procs[EvictProc].mem, clock, a).to_remove = Users

\* C19: FileLock.acquire enters the with block only in a step that finds the marker
\* absent and creates it; while the marker exists each attempt is counted and the
\* count never passes the number of attempts the timeout allows; a process that
\* is acquiring always stops acquiring (it enters, or gives up and goes on without
\* entering), even when the marker is never removed.
MarkerAt(pc, m, c) == IF pc = "collective_acquire" THEN c ELSE m

AcquireIsBoundedWait ==
    /\ [][\A p \in Procs :
             procs[p].pc \in AcquirePcs =>
                 /\ procs'[p].pc \in LockedPcs =>
                       /\ MarkerAt(procs[p].pc, marker, cmarker) = 0
                       /\ MarkerAt(procs[p].pc, marker', cmarker') = p
                       /\ procs'[p].pc = Entered(procs[p].pc)
                 /\ MarkerAt(procs[p].pc, marker, cmarker) # 0 =>
                       \/ procs'[p] = procs[p]
                       \/ procs'[p] = [procs[p] EXCEPT !.tries = @ + 1]
                       \/ procs'[p].pc \in {"idle", "down"}
                 /\ procs'[p].tries <= MaxTries]_vars
    /\ \A p \in Procs : (procs[p].pc \in AcquirePcs) ~> (procs[p].pc \notin AcquirePcs)

\* a process has used up its attempts on a marker left by a process that was killed
TimedOutOnAbandonedMarker ==
    \E p, q \in Procs :
        /\ procs[p].pc \in SessionsAcquirePcs
        /\ procs[p].tries = MaxTries
        /\ marker = q
        /\ procs[q].pc = "down"

\* C20: when load_sessions, save_sessions, the history append or the
\* compressed-session append leaves its with FileLock(...) block, by finishing or by
\* an exception raised inside the block, the marker of its lock is absent; when the
\* marker was already absent the release changes nothing and the operation returns
\* as usual.
LockedMarker(pc, m, c) == IF pc = "collective_write" THEN c ELSE m

ScopedRelease ==
    [][\A p \in Procs :
          (/\ procs[p].pc \in LockedPcs
           /\ procs'[p].pc \notin LockedPcs
           /\ procs'[p].pc # "down")
          => /\ LockedMarker(procs[p].pc, marker', cmarker') = 0
             /\ procs'[p].pc = "idle"
             /\ LockedMarker(procs[p].pc, marker, cmarker) = 0
                   => (marker' = marker /\ cmarker' = cmarker)]_vars

\* the mirror has been written and both appends made, every process is outside its
\* with blocks, and no marker is left
AllReleased ==
    /\ mirror.exists
    /\ compressed = MaxAppends
    /\ Len(collective) = MaxAppends
    /\ \A p \in Procs : procs[p].pc = "idle"
    /\ marker = 0
    /\ cmarker = 0

\* C21: when load_sessions or save_sessions (called by clear_session or by the
\* eviction) has used up the attempts of the timeout on .sessions_lock, it returns
\* without entering the with block: the mirror and the marker are what they were,
\* and the in-memory map is left as it was when the attempt began.
TimedOutStep(p) ==
    /\ procs[p].pc \in {"load_acquire", "save_acquire"}
    /\ ~InTime(p)
    /\ procs'[p] # procs[p]
    /\ procs'[p].pc # "down"

TimeoutWritesNothing ==
    [][\A p \in Procs :
          TimedOutStep(p) =>
              /\ mirror' = mirror
              /\ marker' = marker
              /\ procs'[p].pc = "idle"
              /\ procs'[p].mem = procs[p].mem
              /\ \A q \in Procs \ {p} : procs'[q] = procs[q]]_vars

\* a flush is out of attempts on a marker that a killed process left behind, while
\* the mirror still holds a record the map no longer has
FlushOutOfAttempts ==
    \E p, q \in Procs, u \in Users :
        /\ procs[p].pc = "save_acquire"
        /\ ~InTime(p)
        /\ marker = q
        /\ procs[q].pc = "down"
        /\ procs[p].mem[u] = Free
        /\ LoadedRecords(mirror, clock)[u] # Free

\* C22: load_sessions returns, and when the mirror is absent, does not parse, or
\* holds a record that cannot be reconstructed, the map it leaves is empty.
Loadable(file) ==
    /\ file.exists
    /\ WellFormed(file.blocks)
    /\ \A k \in DOMAIN Parse(file.blocks) : Reconstructs(Parse(file.blocks)[k])

LoadAllOrNothing == (pout.done /\ ~Loadable(mirror)) => pout.loaded = NoRecords

\* C23: the build numbers in collective_builds.txt are strictly increasing from
\* the first entry to the last, so no two entries carry the same number.
BuildNumbersIncrease ==
    \A i, j \in 1..Len(collective) : i < j => collective[i] < collective[j]

\* C24: no two handlers in progress hold the same session record, and so the
\* Build Generator is never invoked by two handlers of the same record.
OneHandlerPerRecord ==
    \A t1, t2 \in Tasks :
        (t1 # t2 /\ tasks[t1].oid # NoOid /\ tasks[t1].oid = tasks[t2].oid)
        => /\ tasks[t1].pc = "idle" \/ tasks[t2].pc = "idle"
           /\ tasks[t1].nbuilt + tasks[t2].nbuilt <= 1

\* The budget text of the slot, the way build_prompt reads it.
SlotNumber == budget_match(RemoveCommas(budget_text(pin)))

\* C25: for every integer value v parsed from the budget slot the ceiling is
\* min(floor(0.85 v), v - 200); for the slot "2000" it is 1700.
CeilingIsSmallerOfTwo ==
    (pout.done /\ SlotNumber # "")
        => LET v == ToInt(SlotNumber)
           IN  /\ pout.ceiling <= (85 * v) \div 100
               /\ pout.ceiling <= v - 200
               /\ pout.ceiling \in {(85 * v) \div 100, v - 200}
               /\ (pin = [budget |-> "2000"]) => pout.ceiling = 1700

CeilingOfTwoThousand == pout.done /\ pin = [budget |-> "2000"] /\ pout.ceiling = 1700

\* C26 as stated: the budget slot "1000" yields the ceiling 650.
CeilingOfThousandIs650 ==
    (pout.done /\ pin = [budget |-> "1000"]) => pout.ceiling = 650

\* C26, amended: the budget slot "1000" yields the ceiling 800, the smaller of
\* floor(0.85 * 1000) = 850 and 1000 - 200 = 800.
CeilingOfThousandIs800 ==
    (pout.done /\ pin = [budget |-> "1000"]) => pout.ceiling = 800

CeilingOfThousand == pout.done /\ pin = [budget |-> "1000"]

\* C27: a budget slot without digits gets the ceiling 800 if its text holds a gaming
\* keyword (fortnite, gaming, game; letter case ignored), otherwise 1200 if it holds
\* a budget keyword (budget, cost, price, spend, afford), otherwise 1000; the slot
\* "no idea, maybe for fortnite" gets 800.
KeywordDefaultCeiling ==
    (pout.done /\ SlotNumber = "")
        => LET text == Lower(budget_text(pin))
               gaming == \E w \in {"fortnite", "gaming", "game"} : Contains(text, w)
               budget == \E w \in {"budget", "cost", "price", "spend", "afford"} :
                             Contains(text, w)
           IN  /\ gaming => pout.ceiling = 800
               /\ (~gaming /\ budget) => pout.ceiling = 1200
               /\ (~gaming /\ ~budget) => pout.ceiling = 1000
               /\ (pin = [budget |-> "no idea, maybe for fortnite"])
                      => pout.ceiling = 800

GamingAndBudgetKeywords ==
    /\ pout.done
    /\ pin = [budget |-> "budgetgaming"]
    /\ pout.ceiling = 800

\* the user's message holds a change keyword and the collaborator's reply the word
\* change
ChangeAsked(task) ==
    /\ \E w \in ChangeWords : w \in WordsIn[task.msg]
    /\ "change" \in WordsIn[task.reply]

\* C28: a Refining turn appends the user's message to build_edits unless it is one
\* of done, restart, cancel, then invokes the refinement collaborator; the Build
\* Generator is invoked again and build_result replaced by its output if and only
\* if the message holds a change keyword and the collaborator's reply the word
\* change; otherwise the turn leaves build_result as it was.
RefinementTurnStep ==
    \A t \in Tasks :
        LET old == tasks[t]
            new == tasks'[t]
        IN  /\ (old.pc = "idle" /\ new.pc = "ref_typing")
                   => /\ heap'[new.oid].build_edits =
                             IF LowerOf[new.msg] \in {"done", "restart", "cancel"}
                             THEN heap[new.oid].build_edits
                             ELSE Append(heap[new.oid].build_edits, new.msg)
                      /\ heap'[new.oid].build_result = heap[new.oid].build_result
                      /\ new.nbuilt = 0
            /\ (old.pc = "ref_typing" /\ new.pc \notin {"idle", "ref_typing"})
                   => /\ new.pc = "ref_send"
                      /\ new.ai \in RefOutcomes
                      /\ new.reply = handle_refinement_message(new.ai)
                      /\ heap'[old.oid].build_result = heap[old.oid].build_result
            /\ RefSendDone(t)
                   => /\ new.pc = "regen_notice" <=> ChangeAsked(old)
                      /\ new.pc # "regen_notice" => (new.pc = "idle" /\ old.nbuilt = 0)
                      /\ heap'[old.oid].build_result = heap[old.oid].build_result
            /\ (old.pc = "regen_notice" /\ new.pc \notin {"idle", "regen_notice"})
                   => /\ new.nbuilt = 1
                      /\ new.build \in {generate_build(outcome) : outcome \in GenOutcomes}
                      /\ heap'[old.oid].build_result = new.build
            /\ (old.after = "ref" /\ (ResultSendDone(t) \/ ErrorSendDone(t)))
                   => /\ ChangeAsked(old)
                      /\ old.nbuilt = 1
                      /\ heap'[old.oid].build_result = heap[old.oid].build_result

RefinementTurn == [][RefinementTurnStep]_vars

RegeneratedInRefining ==
    \E t \in Tasks :
        /\ tasks[t].after = "ref"
        /\ tasks[t].pc \in {"result_send", "error_send"}
        /\ tasks[t].nbuilt = 1
        /\ Len(heap[tasks[t].oid].build_edits) = 1
        /\ heap[tasks[t].oid].build_result = tasks[t].build

\* the positions of save_sessions, from FileLock.acquire to the last write
FlushPcs == {"save_acquire", "save_open", "save_write"}

\* C29: clear_session(u) whose flush succeeds leaves neither the map nor the mirror
\* holding u, and leaves every other record of the map as it was and present in the
\* mirror; the flush is started even when u had no record.  Step by step:
\* clear_session removes u, touches no other record and goes on to save_sessions
\* whether or not u was there; nothing changes the map while the flush runs; and
\* the flush that completes leaves in the mirror the records of the map and no other.
ClearSessionStep ==
    \A p \in Procs :
        LET mem == procs[p].mem
        IN  /\ \A u \in Users :
                  ClearSession(p, u)
                      => /\ procs'[p].mem[u] = Free
                         /\ \A v \in Users \ {u} : procs'[p].mem[v] = mem[v]
                         /\ procs'[p].pc = "save_acquire"
            /\ (procs[p].pc \in FlushPcs /\ procs'[p].pc \in FlushPcs)
                  => procs'[p].mem = mem
            /\ SaveClose(p)
                  => /\ procs'[p].mem = mem
                     /\ mirror'.exists
                     /\ WellFormed(mirror'.blocks)
                     /\ \A u \in Users :
                           IF mem[u] = Free
                           THEN UserKey(u) \notin DOMAIN Parse(mirror'.blocks)
                           ELSE /\ UserKey(u) \in DOMAIN Parse(mirror'.blocks)
                                /\ Parse(mirror'.blocks)[UserKey(u)] = to_dict(mem[u])

ClearSessionFrame == [][ClearSessionStep]_vars

\* at time 0 nothing is stale, so this mirror was written by a clear_session
ClearedOneKeptOther ==
    /\ clock = 0
    /\ mirror.exists
    /\ WellFormed(mirror.blocks)
    /\ \E p \in Procs :
          /\ procs[p].pc = "idle"
          /\ procs[p].mem[1] = Free
          /\ procs[p].mem[2] # Free
          /\ DOMAIN Parse(mirror.blocks) = {UserKey(2)}

\* C30: get_session(u) returns the record the map holds for u, unchanged except
\* for last_activity, or puts one new record there when the map holds none; either
\* way last_activity becomes the current time, the map holds one record for u
\* afterwards, and the records of the other users are not touched.
GetSessionStep ==
    \A p \in Procs, u \in Users :
        GetSession(p, u)
            => LET old == procs[p].mem[u]
                   new == procs'[p].mem[u]
               IN  /\ new # Free
                   /\ new.user_id = u
                   /\ new.last_activity = clock
                   /\ old # Free => new = [old EXCEPT !.last_activity = clock]
                   /\ old = Free => new = NewSession(u, clock)
                   /\ \A v \in Users \ {u} : procs'[p].mem[v] = procs[p].mem[v]

GetSessionFrame == [][GetSessionStep]_vars

\* a record created at time 0 and fetched again at time 1, next to one that was not
FetchedAgainLater ==
    \E p \in Procs :
        /\ procs[p].mem[1] # Free
        /\ procs[p].mem[1].created_at = 0
        /\ procs[p].mem[1].last_activity = 1
        /\ procs[p].mem[2] # Free
        /\ procs[p].mem[2].last_activity = 0

\* .sessions_lock exists and the process that created it is not inside a with block
Abandoned == marker # 0 /\ procs[marker].pc \notin CriticalPcs

\* C31: a marker left by a holder that was killed between acquire and release is
\* never reclaimed by FileLock: while nobody removes it from outside it stays, no
\* process enters a with block on .sessions_lock and the mirror is neither read nor
\* written; every acquire under way returns without entering; and get_session and
\* clear_session still run on the in-memory map.
AbandonedMarkerStays ==
    /\ [][Abandoned =>
             /\ marker' = marker
             /\ mirror' = mirror
             /\ \A p \in Procs : procs'[p].pc \notin CriticalPcs]_vars
    /\ \A p \in Procs :
          (Abandoned /\ procs[p].pc \in {"load_acquire", "save_acquire"})
              ~> (procs[p].pc \in {"idle", "down"})
    /\ [](\A p \in Procs, u \in Users :
             (Abandoned /\ procs[p].pc = "idle")
                 => (ENABLED GetSession(p, u)) /\ (ENABLED ClearSession(p, u)))

\* next to the marker of a killed process, a running process whose map has moved on
\* from the mirror: one record deleted that the mirror still holds, one record kept
MapMovedOnUnderAbandonedMarker ==
    \E p, q \in Procs, u, v \in Users :
        /\ marker = q
        /\ procs[q].pc = "down"
        /\ procs[p].pc = "idle"
        /\ procs[p].mem[u] = Free
        /\ procs[p].mem[v] # Free
        /\ LoadedRecords(mirror, clock)[u] # Free

\* C32: load_sessions, save_sessions, clear_session and cleanup_old_sessions return
\* to their caller whatever fails inside them: after a lock timeout, a marker that
\* cannot be created or a write that raises, the process is between two handlers
\* again with the map as clear_session or the eviction had made it; after a load
\* of a mirror that cannot be read it is between two handlers with a map; and the
\* dump a flush works on is the dump of the map.
StoreFailuresReturn ==
    [][\A p \in Procs :
          /\ (procs[p].pc = "save_acquire" /\ (LockGiveUp(p) \/ LockFault(p)))
                 => procs'[p].pc = "idle" /\ procs'[p].mem = procs[p].mem
          /\ SaveFail(p)
                 => procs'[p].pc = "idle" /\ procs'[p].mem = procs[p].mem
          /\ (procs[p].pc = "load_acquire" /\ (LockGiveUp(p) \/ LockFault(p)))
                 => procs'[p].pc = "idle" /\ procs'[p].mem = NoRecords
          /\ (LoadRead(p) /\ ~Loadable(mirror))
                 => /\ procs'[p].pc = "idle"
                    /\ \A u \in Users :
                          procs'[p].mem[u] # Free => procs'[p].mem[u].user_id = u
          /\ procs'[p].pc \in FlushPcs
                 => procs'[p].data = DumpData(procs'[p].mem)]_vars

\* a write has failed half way and the process that was writing runs on with a record
RunsOnAfterFailedWrite ==
    /\ mirror.exists
    /\ ~WellFormed(mirror.blocks)
    /\ \A p \in Procs : procs[p].pc # "save_write"
    /\ \E p \in Procs, u, v \in Users :
          /\ procs[p].pc = "idle"
          /\ procs[p].mem[u] = Free
          /\ procs[p].mem[v] # Free

\* C33: for every record in the store, conversation_mode and refinement_mode are
\* not both on, feedback_mode is on only with refinement_mode, and conversation_mode
\* or refinement_mode is on.
ModeFlagsConsistent ==
    \A u \in Users :
        sessions[u] # NoOid
            => LET s == heap[sessions[u]]
               IN  /\ ~(s.conversation_mode /\ s.refinement_mode)
                   /\ s.feedback_mode => s.refinement_mode
                   /\ s.conversation_mode \/ s.refinement_mode

\* a mode flag of the user's record is on
ModeOn(u) ==
    /\ sessions[u] # NoOid
    /\ \/ heap[sessions[u]].conversation_mode
       \/ heap[sessions[u]].refinement_mode
       \/ heap[sessions[u]].feedback_mode

MarkerRemovedByCreator ==
    [][/\ \A q \in Procs :
             (marker = q /\ procs[q].pc \in CriticalPcs /\ marker' # q)
                 => procs'[q] # procs[q]
       /\ \A q \in Procs :
             (cmarker = q /\ procs[q].pc = "collective_write" /\ cmarker' # q)
                 => procs'[q] # procs[q]]_vars

\* the handler in slot t holds a record that is no longer the one of the store
HoldsRemoved(t) ==
    /\ tasks[t].pc # "idle"
    /\ tasks[t].oid # NoOid
    /\ tasks[t].oid # sessions[tasks[t].user]

OthersSurviveFlush ==
    [][\A p \in Procs :
          SaveOpen(p)
              => \A v \in Users \ {SlotUser} :
                    LoadedRecords(mirror, clock)[v] # Free
                        => UserKey(v) \in DOMAIN procs[p].data]_vars

\* C39: while the transcript grows by appends and answers keeps its keys, the set
\* of fields are_all_fields_collected counts never loses a field, and once the
\* policy has been true it is true after every later append.
PolicyMonotonic ==
    [][(/\ Len(pin'.chat_history) = Len(pin.chat_history) + 1
        /\ SubSeq(pin'.chat_history, 1, Len(pin.chat_history)) = pin.chat_history
        /\ pin'.answers = pin.answers)
           => /\ CollectedFields(pin) \subseteq CollectedFields(pin')
              /\ are_all_fields_collected(pin) => are_all_fields_collected(pin')
              /\ pout => pout']_vars

\* the policy was true before the last entry was appended, and is true after it
TrueBeforeLastAppend ==
    /\ Len(pin.chat_history) = MaxPolicyLen
    /\ pin.answers = NoAnswers
    /\ are_all_fields_collected([pin EXCEPT !.chat_history = SubSeq(@, 1, Len(@) - 1)])
    /\ pout

\* C40: for every integer budget v parsed from the slot the ceiling of build_prompt
\* is at most v - 200, and the follow-up adjustment (the ceiling becomes v - 200
\* when v minus the ceiling is below 200) leaves the smaller of floor(0.85 v) and
\* v - 200 as it is.
FollowUpChangesNothing ==
    (pout.done /\ SlotNumber # "")
        => LET v == ToInt(SlotNumber)
           IN  /\ pout.ceiling <= v - 200
               /\ v - SmallerOfTwo(v) >= 200
               /\ FollowUp(v, SmallerOfTwo(v)) = SmallerOfTwo(v)
               /\ pout.ceiling = SmallerOfTwo(v)

\* a budget for which v - 200 is the smaller candidate, the gap being exactly 200
GapExactlyTwoHundred ==
    /\ pout.done
    /\ SlotNumber # ""
    /\ Reduced(ToInt(SlotNumber)) > ToInt(SlotNumber) - 200
    /\ ToInt(SlotNumber) > 200
    /\ pout.ceiling = ToInt(SlotNumber) - 200

====
